---- MODULE Spec2Model ----
(***************************************************************************)
(* A model of the accept-encoding crate: the byte-level lexer, the         *)
(* fixed-point QValue, the case-insensitive byte comparison, and the two   *)
(* matcher state machines (encoding_matcher::match_for_encoding and        *)
(* mime_type_matcher::match_for_mime_type) together with the orderings of  *)
(* their results.                                                          *)
(*                                                                         *)
(* Bytes are the integers 0..255.  A byte slice is a sequence of bytes; a  *)
(* Rust index i (0-based) is the TLA+ index i + 1.  A cursor is the Rust   *)
(* offset (0-based), so the byte at cursor c is input[c + 1].              *)
(***************************************************************************)
EXTENDS Integers, Sequences, FiniteSets, TLC

VARIABLES
  em,   \* one call of encoding_matcher::match_for_encoding
  mm,   \* one call of mime_type_matcher::match_for_mime_type
  ord,  \* one evaluation of the Ord implementations of the result types
  call  \* one call of a single operation (a QValue constructor, a lexer operation)

vars == <<em, mm, ord, call>>

----------------------------------------------------------------------------
(* Writing byte strings.  Ascii[i] is the character with code 31 + i; the   *)
(* grave accent (96) cannot be written in a string and has a placeholder.  *)

Ascii ==
  << " ", "!", "\"", "#", "$", "%", "&", "'", "(", ")", "*", "+", ",", "-", ".", "/",
     "0", "1", "2", "3", "4", "5", "6", "7", "8", "9", ":", ";", "<", "=", ">", "?",
     "@", "A", "B", "C", "D", "E", "F", "G", "H", "I", "J", "K", "L", "M", "N", "O",
     "P", "Q", "R", "S", "T", "U", "V", "W", "X", "Y", "Z", "[", "\\", "]", "^", "_",
     "<backtick>", "a", "b", "c", "d", "e", "f", "g", "h", "i", "j", "k", "l", "m", "n", "o",
     "p", "q", "r", "s", "t", "u", "v", "w", "x", "y", "z", "{", "|", "}", "~" >>

\* The byte of a one-character string (b'x' in the source).
Ch(ch) ==
  IF ch = "\t" THEN 9 ELSE 31 + (CHOOSE i \in 1..Len(Ascii) : Ascii[i] = ch)

\* The bytes of a string (b"..." in the source).
B(s) == [i \in 1..Len(s) |-> Ch(SubSeq(s, i, i))]

Byte == 0..255

TAB == Ch("\t")
SP == Ch(" ")
DQUOTE == Ch("\"")
STAR == Ch("*")
COMMA == Ch(",")
DOT == Ch(".")
SLASH == Ch("/")
DIGIT0 == Ch("0")
DIGIT1 == Ch("1")
DIGIT9 == Ch("9")
SEMICOLON == Ch(";")
EQ_SIGN == Ch("=")
BACKSLASH == Ch("\\")
LOWER_A == Ch("a")
LOWER_Z == Ch("z")
UPPER_A == Ch("A")
UPPER_Z == Ch("Z")

----------------------------------------------------------------------------
(* src/src/byte_slice.rs                                                   *)

\* b | 0b010_0000 on a u8.
or_0x20(b) == IF (b \div 32) % 2 = 1 THEN b ELSE b + 32

\* u8::is_ascii_lowercase
is_ascii_lowercase(b) == LOWER_A <= b /\ b <= LOWER_Z

\* byte_eq_ignore_case without the test that the folded byte is a letter.
byte_eq_ignore_case_any_byte(b1, b2) ==
  \/ b1 = b2
  \/ or_0x20(b1) = or_0x20(b2)

byte_eq_ignore_case(b1, b2) ==
  \/ b1 = b2
  \/ LET b1_not_upper == or_0x20(b1)
         b2_not_upper == or_0x20(b2)
     IN  is_ascii_lowercase(b1_not_upper) /\ b1_not_upper = b2_not_upper

bytes_eq_ignore_case(bytes1, bytes2) ==
  IF Len(bytes1) # Len(bytes2)
  THEN FALSE
  ELSE \A i \in 1..Len(bytes1) : byte_eq_ignore_case(bytes1[i], bytes2[i])

----------------------------------------------------------------------------
(* src/src/q_value.rs.  A QValue is its millis field; a Result<QValue, _>  *)
(* is [ok |-> BOOLEAN, millis |-> Nat].                                    *)

Q_VALUE_FRAC_MAX_DIGITS == 3

RECURSIVE Pow10(_)
Pow10(n) == IF n = 0 THEN 1 ELSE 10 * Pow10(n - 1)

\* 10u16.pow(Q_VALUE_FRAC_MAX_DIGITS)
MaxMillis == Pow10(Q_VALUE_FRAC_MAX_DIGITS)

QErr == [ok |-> FALSE, millis |-> 0]
QOk(millis) == [ok |-> TRUE, millis |-> millis]

\* from_millis without the range check.
from_millis_unchecked(millis) == QOk(millis)

from_millis(millis) == IF millis <= MaxMillis THEN QOk(millis) ELSE QErr

\* const MAX_LEN: usize = 2 + Q_VALUE_FRAC_MAX_DIGITS
MAX_LEN == 2 + Q_VALUE_FRAC_MAX_DIGITS

\* The digit loop taking a byte that is no digit as the digit 0.
RECURSIVE FracDigits_any_byte(_, _, _)
FracDigits_any_byte(v, i, millis) ==
  IF i > Len(v)
  THEN QOk(millis)
  ELSE IF DIGIT0 <= v[i] /\ v[i] <= DIGIT9
       THEN FracDigits_any_byte(v, i + 1, (millis * 10 + (v[i] - DIGIT0)) % 65536)
       ELSE FracDigits_any_byte(v, i + 1, (millis * 10) % 65536)

\* The loop `for b in &v[2..]` of the '0' arm from index i (1-based) on, with
\* u16 arithmetic: [ok, millis].
RECURSIVE FracDigits(_, _, _)
FracDigits(v, i, millis) ==
  IF i > Len(v)
  THEN QOk(millis)
  ELSE IF DIGIT0 <= v[i] /\ v[i] <= DIGIT9
       THEN FracDigits(v, i + 1, (millis * 10 + (v[i] - DIGIT0)) % 65536)
       ELSE QErr

\* QValue_try_from_str without the scaling of a short fraction.
QValue_try_from_str_unpadded(v) ==
  IF Len(v) = 0
  THEN QErr
  ELSE IF v[1] = DIGIT0
  THEN IF (Len(v) > 1 /\ v[2] # DOT) \/ Len(v) > MAX_LEN
       THEN QErr
       ELSE IF Len(v) > 2 THEN FracDigits(v, 3, 0) ELSE QOk(0)
  ELSE IF v[1] = DIGIT1
  THEN IF (Len(v) > 1 /\ v[2] # DOT) \/ Len(v) > MAX_LEN
       THEN QErr
       ELSE IF Len(v) > 2 /\ \E i \in 3..Len(v) : v[i] # DIGIT0
            THEN QErr
            ELSE QOk(1000)
  ELSE QErr

\* impl TryFrom<&str> for QValue, on the bytes of the string.
QValue_try_from_str(v) ==
  IF Len(v) = 0
  THEN QErr
  ELSE IF v[1] = DIGIT0
  THEN IF (Len(v) > 1 /\ v[2] # DOT) \/ Len(v) > MAX_LEN
       THEN QErr
       ELSE IF Len(v) > 2
            THEN LET r == FracDigits(v, 3, 0)
                 IN  IF r.ok
                     THEN QOk((r.millis * Pow10(MAX_LEN - Len(v))) % 65536)
                     ELSE QErr
            ELSE QOk(0)
  ELSE IF v[1] = DIGIT1
  THEN IF (Len(v) > 1 /\ v[2] # DOT) \/ Len(v) > MAX_LEN
       THEN QErr
       ELSE IF Len(v) > 2 /\ \E i \in 3..Len(v) : v[i] # DIGIT0
            THEN QErr
            ELSE QOk(1000)
  ELSE QErr

\* An f64 argument is <<kind, neg, num, den>>: kind 0 a number of absolute
\* value num / den (den a power of two, so that v * 1000.0 is exact), kind 1
\* a NaN, kind 2 an infinity; neg is 1 for a negative sign.
\* impl TryFrom<f64> for QValue
QValue_try_from_f64(v) ==
  IF v[1] = 1
     \/ v[1] = 2
     \/ (v[2] = 1 /\ v[3] # 0)
     \/ v[3] > v[4]
  THEN QErr
  ELSE from_millis((v[3] * MaxMillis) \div v[4])

----------------------------------------------------------------------------
(* src/src/lexer2.rs (the module the matchers import as crate::lexer).     *)
(* A parser result is [ok |-> BOOLEAN, c |-> cursor]: the cursor is the    *)
(* one the parser leaves behind, also when it fails.                       *)

TCHAR_TABLE ==
  <<
    FALSE, FALSE, FALSE, FALSE, FALSE, FALSE, FALSE, FALSE, FALSE, FALSE, FALSE, FALSE, FALSE, FALSE, FALSE, FALSE,
    FALSE, FALSE, FALSE, FALSE, FALSE, FALSE, FALSE, FALSE, FALSE, FALSE, FALSE, FALSE, FALSE, FALSE, FALSE, FALSE,
    FALSE, TRUE , FALSE, TRUE , TRUE , TRUE , TRUE , TRUE , FALSE, FALSE, TRUE , TRUE , FALSE, TRUE , TRUE , FALSE,
    TRUE , TRUE , TRUE , TRUE , TRUE , TRUE , TRUE , TRUE , TRUE , TRUE , FALSE, FALSE, FALSE, FALSE, FALSE, FALSE,
    FALSE, TRUE , TRUE , TRUE , TRUE , TRUE , TRUE , TRUE , TRUE , TRUE , TRUE , TRUE , TRUE , TRUE , TRUE , TRUE ,
    TRUE , TRUE , TRUE , TRUE , TRUE , TRUE , TRUE , TRUE , TRUE , TRUE , TRUE , FALSE, FALSE, FALSE, TRUE , TRUE ,
    TRUE , TRUE , TRUE , TRUE , TRUE , TRUE , TRUE , TRUE , TRUE , TRUE , TRUE , TRUE , TRUE , TRUE , TRUE , TRUE ,
    TRUE , TRUE , TRUE , TRUE , TRUE , TRUE , TRUE , TRUE , TRUE , TRUE , TRUE , FALSE, TRUE , FALSE, TRUE , FALSE,
    FALSE, FALSE, FALSE, FALSE, FALSE, FALSE, FALSE, FALSE, FALSE, FALSE, FALSE, FALSE, FALSE, FALSE, FALSE, FALSE,
    FALSE, FALSE, FALSE, FALSE, FALSE, FALSE, FALSE, FALSE, FALSE, FALSE, FALSE, FALSE, FALSE, FALSE, FALSE, FALSE,
    FALSE, FALSE, FALSE, FALSE, FALSE, FALSE, FALSE, FALSE, FALSE, FALSE, FALSE, FALSE, FALSE, FALSE, FALSE, FALSE,
    FALSE, FALSE, FALSE, FALSE, FALSE, FALSE, FALSE, FALSE, FALSE, FALSE, FALSE, FALSE, FALSE, FALSE, FALSE, FALSE,
    FALSE, FALSE, FALSE, FALSE, FALSE, FALSE, FALSE, FALSE, FALSE, FALSE, FALSE, FALSE, FALSE, FALSE, FALSE, FALSE,
    FALSE, FALSE, FALSE, FALSE, FALSE, FALSE, FALSE, FALSE, FALSE, FALSE, FALSE, FALSE, FALSE, FALSE, FALSE, FALSE,
    FALSE, FALSE, FALSE, FALSE, FALSE, FALSE, FALSE, FALSE, FALSE, FALSE, FALSE, FALSE, FALSE, FALSE, FALSE, FALSE,
    FALSE, FALSE, FALSE, FALSE, FALSE, FALSE, FALSE, FALSE, FALSE, FALSE, FALSE, FALSE, FALSE, FALSE, FALSE, FALSE
  >>

QDTEXT_TABLE ==
  <<
    FALSE, FALSE, FALSE, FALSE, FALSE, FALSE, FALSE, FALSE, FALSE, TRUE , FALSE, FALSE, FALSE, FALSE, FALSE, FALSE,
    FALSE, FALSE, FALSE, FALSE, FALSE, FALSE, FALSE, FALSE, FALSE, FALSE, FALSE, FALSE, FALSE, FALSE, FALSE, FALSE,
    TRUE , TRUE , FALSE, TRUE , TRUE , TRUE , TRUE , TRUE , TRUE , TRUE , TRUE , TRUE , TRUE , TRUE , TRUE , TRUE ,
    TRUE , TRUE , TRUE , TRUE , TRUE , TRUE , TRUE , TRUE , TRUE , TRUE , TRUE , TRUE , TRUE , TRUE , TRUE , TRUE ,
    TRUE , TRUE , TRUE , TRUE , TRUE , TRUE , TRUE , TRUE , TRUE , TRUE , TRUE , TRUE , TRUE , TRUE , TRUE , TRUE ,
    TRUE , TRUE , TRUE , TRUE , TRUE , TRUE , TRUE , TRUE , TRUE , TRUE , TRUE , TRUE , FALSE, TRUE , TRUE , TRUE ,
    TRUE , TRUE , TRUE , TRUE , TRUE , TRUE , TRUE , TRUE , TRUE , TRUE , TRUE , TRUE , TRUE , TRUE , TRUE , TRUE ,
    TRUE , TRUE , TRUE , TRUE , TRUE , TRUE , TRUE , TRUE , TRUE , TRUE , TRUE , TRUE , TRUE , TRUE , TRUE , FALSE,
    TRUE , TRUE , TRUE , TRUE , TRUE , TRUE , TRUE , TRUE , TRUE , TRUE , TRUE , TRUE , TRUE , TRUE , TRUE , TRUE ,
    TRUE , TRUE , TRUE , TRUE , TRUE , TRUE , TRUE , TRUE , TRUE , TRUE , TRUE , TRUE , TRUE , TRUE , TRUE , TRUE ,
    TRUE , TRUE , TRUE , TRUE , TRUE , TRUE , TRUE , TRUE , TRUE , TRUE , TRUE , TRUE , TRUE , TRUE , TRUE , TRUE ,
    TRUE , TRUE , TRUE , TRUE , TRUE , TRUE , TRUE , TRUE , TRUE , TRUE , TRUE , TRUE , TRUE , TRUE , TRUE , TRUE ,
    TRUE , TRUE , TRUE , TRUE , TRUE , TRUE , TRUE , TRUE , TRUE , TRUE , TRUE , TRUE , TRUE , TRUE , TRUE , TRUE ,
    TRUE , TRUE , TRUE , TRUE , TRUE , TRUE , TRUE , TRUE , TRUE , TRUE , TRUE , TRUE , TRUE , TRUE , TRUE , TRUE ,
    TRUE , TRUE , TRUE , TRUE , TRUE , TRUE , TRUE , TRUE , TRUE , TRUE , TRUE , TRUE , TRUE , TRUE , TRUE , TRUE ,
    TRUE , TRUE , TRUE , TRUE , TRUE , TRUE , TRUE , TRUE , TRUE , TRUE , TRUE , TRUE , TRUE , TRUE , TRUE , TRUE 
  >>

QUOTED_PAIR_CHAR_TABLE ==
  <<
    FALSE, FALSE, FALSE, FALSE, FALSE, FALSE, FALSE, FALSE, FALSE, TRUE , FALSE, FALSE, FALSE, FALSE, FALSE, FALSE,
    FALSE, FALSE, FALSE, FALSE, FALSE, FALSE, FALSE, FALSE, FALSE, FALSE, FALSE, FALSE, FALSE, FALSE, FALSE, FALSE,
    TRUE , TRUE , TRUE , TRUE , TRUE , TRUE , TRUE , TRUE , TRUE , TRUE , TRUE , TRUE , TRUE , TRUE , TRUE , TRUE ,
    TRUE , TRUE , TRUE , TRUE , TRUE , TRUE , TRUE , TRUE , TRUE , TRUE , TRUE , TRUE , TRUE , TRUE , TRUE , TRUE ,
    TRUE , TRUE , TRUE , TRUE , TRUE , TRUE , TRUE , TRUE , TRUE , TRUE , TRUE , TRUE , TRUE , TRUE , TRUE , TRUE ,
    TRUE , TRUE , TRUE , TRUE , TRUE , TRUE , TRUE , TRUE , TRUE , TRUE , TRUE , TRUE , TRUE , TRUE , TRUE , TRUE ,
    TRUE , TRUE , TRUE , TRUE , TRUE , TRUE , TRUE , TRUE , TRUE , TRUE , TRUE , TRUE , TRUE , TRUE , TRUE , TRUE ,
    TRUE , TRUE , TRUE , TRUE , TRUE , TRUE , TRUE , TRUE , TRUE , TRUE , TRUE , TRUE , TRUE , TRUE , TRUE , FALSE,
    TRUE , TRUE , TRUE , TRUE , TRUE , TRUE , TRUE , TRUE , TRUE , TRUE , TRUE , TRUE , TRUE , TRUE , TRUE , TRUE ,
    TRUE , TRUE , TRUE , TRUE , TRUE , TRUE , TRUE , TRUE , TRUE , TRUE , TRUE , TRUE , TRUE , TRUE , TRUE , TRUE ,
    TRUE , TRUE , TRUE , TRUE , TRUE , TRUE , TRUE , TRUE , TRUE , TRUE , TRUE , TRUE , TRUE , TRUE , TRUE , TRUE ,
    TRUE , TRUE , TRUE , TRUE , TRUE , TRUE , TRUE , TRUE , TRUE , TRUE , TRUE , TRUE , TRUE , TRUE , TRUE , TRUE ,
    TRUE , TRUE , TRUE , TRUE , TRUE , TRUE , TRUE , TRUE , TRUE , TRUE , TRUE , TRUE , TRUE , TRUE , TRUE , TRUE ,
    TRUE , TRUE , TRUE , TRUE , TRUE , TRUE , TRUE , TRUE , TRUE , TRUE , TRUE , TRUE , TRUE , TRUE , TRUE , TRUE ,
    TRUE , TRUE , TRUE , TRUE , TRUE , TRUE , TRUE , TRUE , TRUE , TRUE , TRUE , TRUE , TRUE , TRUE , TRUE , TRUE ,
    TRUE , TRUE , TRUE , TRUE , TRUE , TRUE , TRUE , TRUE , TRUE , TRUE , TRUE , TRUE , TRUE , TRUE , TRUE , TRUE 
  >>

\* is_qdtext without the bytes that separate elements and parameters.
is_qdtext_no_separators(b) == QDTEXT_TABLE[b + 1] /\ b \notin {44, 59, 61}

\* is_qdtext looking the byte up in the table of the quoted-pair bytes.
is_qdtext_any_visible(b) == QUOTED_PAIR_CHAR_TABLE[b + 1]

is_tchar(b) == TCHAR_TABLE[b + 1]
is_qdtext(b) == QDTEXT_TABLE[b + 1]
is_quoted_pair_char(b) == QUOTED_PAIR_CHAR_TABLE[b + 1]
is_digit(b) == DIGIT0 <= b /\ b <= DIGIT9
is_ows(b) == b = SP \/ b = TAB
is_zero(b) == b = DIGIT0

\* The predicates handed to the combinators, as functions of the byte.
TcharPred == [b \in Byte |-> is_tchar(b)]
QdtextPred == [b \in Byte |-> is_qdtext(b)]
QuotedPairPred == [b \in Byte |-> is_quoted_pair_char(b)]
DigitPred == [b \in Byte |-> is_digit(b)]
OwsPred == [b \in Byte |-> is_ows(b)]
ZeroPred == [b \in Byte |-> is_zero(b)]

POk(c) == [ok |-> TRUE, c |-> c]
PErr(c) == [ok |-> FALSE, c |-> c]

\* Cursor::eof, Cursor::peek (has a byte), Cursor::slice
eof(input, c) == c >= Len(input)
slice(input, c, end) == SubSeq(input, c + 1, end)

\* byte advancing without peeking.
byte_without_peek(b, input, c) == POk(c + 1)

byte(b, input, c) ==
  IF ~eof(input, c) /\ input[c + 1] = b THEN POk(c + 1) ELSE PErr(c)

\* The loop of match_m_n: [c, count, full], full when count reached n.
RECURSIVE match_m_n_loop(_, _, _, _, _)
match_m_n_loop(pred, n, input, c, count) ==
  IF ~eof(input, c) /\ pred[input[c + 1]]
  THEN IF count + 1 = n
       THEN [c |-> c + 1, count |-> count + 1, full |-> TRUE]
       ELSE match_m_n_loop(pred, n, input, c + 1, count + 1)
  ELSE [c |-> c, count |-> count, full |-> FALSE]

match_m_n(pred, m, n, input, c) ==
  LET l == match_m_n_loop(pred, n, input, c, 0)
  IN  IF l.full \/ l.count >= m THEN POk(l.c) ELSE PErr(l.c)

\* The loop shared by match_one_or_more and match_zero_or_more.
RECURSIVE advance_while(_, _, _)
advance_while(pred, input, c) ==
  IF ~eof(input, c) /\ pred[input[c + 1]]
  THEN advance_while(pred, input, c + 1)
  ELSE c

match_one_or_more(pred, input, c) ==
  LET c1 == advance_while(pred, input, c)
  IN  IF c1 > c THEN POk(c1) ELSE PErr(c1)

match_zero_or_more(pred, input, c) == advance_while(pred, input, c)

RECURSIVE escaped_loop(_, _, _, _, _, _)
escaped_loop(normal, escape_char, escapable, input, c, seen_escape_char) ==
  IF eof(input, c)
  THEN POk(c)
  ELSE LET b == input[c + 1]
       IN  IF seen_escape_char
           THEN IF escapable[b]
                THEN escaped_loop(normal, escape_char, escapable, input, c + 1, FALSE)
                ELSE PErr(c)
           ELSE IF normal[b]
           THEN escaped_loop(normal, escape_char, escapable, input, c + 1, FALSE)
           ELSE IF b = escape_char
           THEN escaped_loop(normal, escape_char, escapable, input, c + 1, TRUE)
           ELSE POk(c)

\* escaped taking any byte after the escape character.
escaped_any_pair(normal, escape_char, escapable, input, c) ==
  escaped_loop(normal, escape_char, [b \in Byte |-> TRUE], input, c, FALSE)

escaped(normal, escape_char, escapable, input, c) ==
  escaped_loop(normal, escape_char, escapable, input, c, FALSE)

token(input, c) == match_one_or_more(TcharPred, input, c)

\* quoted_string putting the cursor back where it was when it fails.
quoted_string_reset(input, c) ==
  LET r1 == byte(DQUOTE, input, c)
      r2 == IF r1.ok
            THEN escaped(QdtextPred, BACKSLASH, QuotedPairPred, input, r1.c)
            ELSE r1
      r3 == IF r2.ok THEN byte(DQUOTE, input, r2.c) ELSE r2
  IN  IF r3.ok THEN r3 ELSE PErr(c)

quoted_string(input, c) ==
  LET r1 == byte(DQUOTE, input, c)
  IN  IF ~r1.ok
      THEN r1
      ELSE LET r2 == escaped(QdtextPred, BACKSLASH, QuotedPairPred, input, r1.c)
           IN  IF ~r2.ok THEN r2 ELSE byte(DQUOTE, input, r2.c)

\* alt(token, quoted_string): the cursor is reset before the second parser.
token_or_quoted_string(input, c) ==
  LET r1 == token(input, c)
  IN  IF r1.ok THEN r1 ELSE quoted_string(input, c)

ows(input, c) == match_zero_or_more(OwsPred, input, c)

\* opt_fraction that takes up to four fractional digits.
opt_fraction_four_digits(pred, input, c) ==
  LET r1 == byte(DOT, input, c)
      r2 == IF r1.ok
            THEN match_m_n(pred, 0, Q_VALUE_FRAC_MAX_DIGITS + 1, input, r1.c)
            ELSE r1
  IN  IF r2.ok THEN r2 ELSE POk(c)

\* opt(pair(byte(b'.'), match_m_n(pred, 0, 3))): a failure resets the cursor.
opt_fraction(pred, input, c) ==
  LET r1 == byte(DOT, input, c)
      r2 == IF r1.ok THEN match_m_n(pred, 0, Q_VALUE_FRAC_MAX_DIGITS, input, r1.c) ELSE r1
  IN  IF r2.ok THEN r2 ELSE POk(c)

\* q_value_branch taking any digit in the fraction of either alternative.
q_value_branch_any_digit(first, pred, input, c) ==
  LET r1 == byte(first, input, c)
  IN  IF ~r1.ok THEN r1 ELSE opt_fraction(DigitPred, input, r1.c)

\* pair(byte(first), opt(...))
q_value_branch(first, pred, input, c) ==
  LET r1 == byte(first, input, c)
  IN  IF ~r1.ok THEN r1 ELSE opt_fraction(pred, input, r1.c)

\* str::from_utf8(bytes).is_ok(), decided for ASCII; any other byte is
\* taken as an error, which can only add panics to the model.
from_utf8_ok(bytes) == \A i \in 1..Len(bytes) : bytes[i] < 128

\* q_value failing when a digit follows the prefix it matched.
q_value_strict(input, c) ==
  LET r1 == q_value_branch(DIGIT0, DigitPred, input, c)
      r  == IF r1.ok THEN r1 ELSE q_value_branch(DIGIT1, ZeroPred, input, c)
      s  == slice(input, c, r.c)
      q  == QValue_try_from_str(s)
  IN  IF ~r.ok \/ (r.c < Len(input) /\ is_digit(input[r.c + 1]))
      THEN [ok |-> FALSE, c |-> r.c, panic |-> FALSE, q |-> 0]
      ELSE [ok |-> TRUE, c |-> r.c, panic |-> ~(from_utf8_ok(s) /\ q.ok),
            q |-> q.millis]

\* q_value: [ok, c, panic, q]; panic when one of its two unwraps fails.
q_value(input, c) ==
  LET r1 == q_value_branch(DIGIT0, DigitPred, input, c)
      r  == IF r1.ok THEN r1 ELSE q_value_branch(DIGIT1, ZeroPred, input, c)
      s  == slice(input, c, r.c)
      q  == QValue_try_from_str(s)
  IN  IF ~r.ok
      THEN [ok |-> FALSE, c |-> r.c, panic |-> FALSE, q |-> 0]
      ELSE [ok |-> TRUE, c |-> r.c, panic |-> ~(from_utf8_ok(s) /\ q.ok),
            q |-> q.millis]

----------------------------------------------------------------------------
(* src/src/encoding_matcher.rs                                             *)
(* An Option<EncodingMatch> is [some, match_type, q]; None is NoMatch.     *)

\* enum EncodingMatchType, in declaration order (the derived Ord).
Wildcard == 0
Exact == 1

NoMatch == [some |-> FALSE, match_type |-> 0, q |-> 0]
Match(match_type, q) == [some |-> TRUE, match_type |-> match_type, q |-> q]

\* Ordering
Less == -1
Equal == 0
Greater == 1

\* Ord for an integer key (the derived Ord of the enum, and of QValue.millis).
cmp_int(x, y) == IF x < y THEN Less ELSE IF x > y THEN Greater ELSE Equal

\* The order of the tuple with the fields swapped: quality first.
EncodingMatch_cmp_q_first(self, other) ==
  IF cmp_int(self.q, other.q) # Equal
  THEN cmp_int(self.q, other.q)
  ELSE cmp_int(self.match_type, other.match_type)

\* impl Ord for EncodingMatch: (match_type, &q).cmp(&(other.match_type, &other.q)),
\* the lexicographic order of the tuple.
EncodingMatch_cmp(self, other) ==
  IF cmp_int(self.match_type, other.match_type) # Equal
  THEN cmp_int(self.match_type, other.match_type)
  ELSE cmp_int(self.q, other.q)

\* Option<EncodingMatch>::gt: None is below every Some.
EncodingOption_gt(a, b) ==
  IF ~a.some THEN FALSE
  ELSE IF ~b.some THEN TRUE
  ELSE EncodingMatch_cmp(a, b) = Greater

\* may_update_best_result without the comparison: the last match wins.
may_update_last_wins(cur_result, best_result) ==
  IF cur_result.some
  THEN [cur_result |-> NoMatch, best_result |-> cur_result]
  ELSE [cur_result |-> cur_result, best_result |-> best_result]

\* may_update_best_result: the two slots after the call.
\* may_update_best_result passing over a candidate of quality 0.
may_update_nonzero_only(cur_result, best_result) ==
  IF EncodingOption_gt(cur_result, best_result) /\ cur_result.q > 0
  THEN [cur_result |-> NoMatch, best_result |-> cur_result]
  ELSE [cur_result |-> cur_result, best_result |-> best_result]

may_update_best_result(cur_result, best_result) ==
  IF EncodingOption_gt(cur_result, best_result)
  THEN [cur_result |-> NoMatch, best_result |-> cur_result]
  ELSE [cur_result |-> cur_result, best_result |-> best_result]

GZIP == B("gzip")
X_GZIP == B("x-gzip")
COMPRESS == B("compress")
X_COMPRESS == B("x-compress")
STAR_TOKEN == B("*")
Q_NAME == B("q")

\* classify_encoding with the aliases taken in both directions.
classify_encoding_alias_both_ways(tok, encoding) ==
  LET is_gzip == bytes_eq_ignore_case(encoding, GZIP)
      is_compress == bytes_eq_ignore_case(encoding, COMPRESS)
  IN  IF \/ bytes_eq_ignore_case(tok, encoding)
         \/ (is_gzip /\ bytes_eq_ignore_case(tok, X_GZIP))
         \/ (is_compress /\ bytes_eq_ignore_case(tok, X_COMPRESS))
         \/ (bytes_eq_ignore_case(encoding, X_GZIP) /\ bytes_eq_ignore_case(tok, GZIP))
         \/ (bytes_eq_ignore_case(encoding, X_COMPRESS) /\ bytes_eq_ignore_case(tok, COMPRESS))
      THEN Match(Exact, from_millis(1000).millis)
      ELSE IF tok = STAR_TOKEN
      THEN Match(Wildcard, from_millis(1000).millis)
      ELSE NoMatch

\* classify_encoding comparing the bytes as they are.
classify_encoding_case_sensitive(tok, encoding) ==
  IF \/ tok = encoding
     \/ (encoding = GZIP /\ tok = X_GZIP)
     \/ (encoding = COMPRESS /\ tok = X_COMPRESS)
  THEN Match(Exact, from_millis(1000).millis)
  ELSE IF tok = STAR_TOKEN
  THEN Match(Wildcard, from_millis(1000).millis)
  ELSE NoMatch

\* The value assigned to cur_result in State::SearchingEncoding.
classify_encoding(tok, encoding) ==
  LET is_gzip == bytes_eq_ignore_case(encoding, GZIP)
      is_compress == bytes_eq_ignore_case(encoding, COMPRESS)
  IN  IF \/ bytes_eq_ignore_case(tok, encoding)
         \/ (is_gzip /\ bytes_eq_ignore_case(tok, X_GZIP))
         \/ (is_compress /\ bytes_eq_ignore_case(tok, X_COMPRESS))
      THEN Match(Exact, from_millis(1000).millis)
      ELSE IF tok = STAR_TOKEN
      THEN Match(Wildcard, from_millis(1000).millis)
      ELSE NoMatch

\* The state at the start of match_for_encoding.  hist is a history of the
\* slices the scan has taken: one entry per encoding token, with the
\* (name, value) slices of its parameters; param_name is the local slice.
EncodingCall(input, encoding) ==
  [ input |-> input, encoding |-> encoding,
    state |-> "SearchingEncoding",
    cur_result |-> NoMatch, best_result |-> NoMatch,
    is_q_param |-> FALSE, c |-> 0,
    param_name |-> <<>>, hist |-> <<>>,
    pc |-> "loop", result |-> NoMatch ]

\* return_none leaving the loop with what best_result holds.
return_best_so_far(m, c) ==
  [m EXCEPT !.c = c, !.pc = "abort", !.result = m.best_result]

\* `return None` (also the `.ok()?` of a failed parser), cursor left at c.
return_none(m, c) == [m EXCEPT !.c = c, !.pc = "abort", !.result = NoMatch]

\* A failed unwrap.
panic(m, c) == [m EXCEPT !.c = c, !.pc = "panic", !.result = NoMatch]

\* SearchingEncoding_arm with a token of zero or more tchars.
SearchingEncoding_arm_empty_token(m) ==
  LET c1 == match_zero_or_more(TcharPred, m.input, m.c)
      tok == slice(m.input, m.c, c1)
  IN  [m EXCEPT !.c = c1,
                !.cur_result = classify_encoding(tok, m.encoding),
                !.hist = Append(@, [tok |-> tok, params |-> <<>>]),
                !.state = "SeenEncoding"]

SearchingEncoding_arm(m) ==
  LET r == token(m.input, m.c)
      tok == slice(m.input, m.c, r.c)
  IN  IF ~r.ok
      THEN return_none(m, r.c)
      ELSE [m EXCEPT !.c = r.c,
                     !.cur_result = classify_encoding(tok, m.encoding),
                     !.hist = Append(@, [tok |-> tok, params |-> <<>>]),
                     !.state = "SeenEncoding"]

\* SeenEncoding_arm without the return at end of input after whitespace.
SeenEncoding_arm_trailing_ows(m) ==
  LET c1 == ows(m.input, m.c)
      semi == byte(SEMICOLON, m.input, c1)
      comma == byte(COMMA, m.input, c1)
  IN  IF eof(m.input, c1)
      THEN [m EXCEPT !.c = c1]
      ELSE IF semi.ok
      THEN [m EXCEPT !.c = ows(m.input, semi.c), !.state = "SeenSemicolon"]
      ELSE IF comma.ok
      THEN LET u == may_update_best_result(m.cur_result, m.best_result)
           IN  [m EXCEPT !.c = ows(m.input, comma.c),
                         !.cur_result = u.cur_result,
                         !.best_result = u.best_result,
                         !.state = "SearchingEncoding"]
      ELSE return_none(m, c1)

SeenEncoding_arm(m) ==
  IF eof(m.input, m.c)
  THEN m
  ELSE LET c1 == ows(m.input, m.c)
           semi == byte(SEMICOLON, m.input, c1)
           comma == byte(COMMA, m.input, c1)
       IN  IF eof(m.input, c1)
           THEN return_none(m, c1)
           ELSE IF semi.ok
           THEN [m EXCEPT !.c = ows(m.input, semi.c), !.state = "SeenSemicolon"]
           ELSE IF comma.ok
           THEN LET u == may_update_best_result(m.cur_result, m.best_result)
                IN  [m EXCEPT !.c = ows(m.input, comma.c),
                              !.cur_result = u.cur_result,
                              !.best_result = u.best_result,
                              !.state = "SearchingEncoding"]
           ELSE return_none(m, c1)

\* SeenSemicolon_arm comparing the parameter name with b"q" as it is.
SeenSemicolon_arm_lowercase_q(m) ==
  LET r == token(m.input, m.c)
      param_name == slice(m.input, m.c, r.c)
  IN  IF ~r.ok
      THEN return_none(m, r.c)
      ELSE [m EXCEPT !.c = r.c,
                     !.param_name = param_name,
                     !.is_q_param = (param_name = Q_NAME),
                     !.state = "SeenParameterName"]

SeenSemicolon_arm(m) ==
  LET r == token(m.input, m.c)
      param_name == slice(m.input, m.c, r.c)
  IN  IF ~r.ok
      THEN return_none(m, r.c)
      ELSE [m EXCEPT !.c = r.c,
                     !.param_name = param_name,
                     !.is_q_param = bytes_eq_ignore_case(param_name, Q_NAME),
                     !.state = "SeenParameterName"]

\* SeenParameterName_arm skipping whitespace before the '='.
SeenParameterName_arm_ows(m) ==
  LET r == byte(EQ_SIGN, m.input, ows(m.input, m.c))
  IN  IF ~r.ok
      THEN return_none(m, r.c)
      ELSE [m EXCEPT !.c = r.c, !.state = "SeenEqual"]

SeenParameterName_arm(m) ==
  LET r == byte(EQ_SIGN, m.input, m.c)
  IN  IF ~r.ok
      THEN return_none(m, r.c)
      ELSE [m EXCEPT !.c = r.c, !.state = "SeenEqual"]

\* The history entry of the current alternative with one more parameter.
with_param(hist, name, value) ==
  [hist EXCEPT ![Len(hist)].params = Append(@, [name |-> name, value |-> value])]

\* SeenEqual_arm keeping the first q of an alternative.
SeenEqual_arm_first_q(m) ==
  IF m.is_q_param
  THEN LET r == q_value(m.input, m.c)
           s == slice(m.input, m.c, r.c)
           first == \A i \in 1..Len(m.hist[Len(m.hist)].params) :
                      ~bytes_eq_ignore_case(m.hist[Len(m.hist)].params[i].name, Q_NAME)
       IN  IF ~r.ok
           THEN return_none(m, r.c)
           ELSE [m EXCEPT !.c = r.c,
                          !.cur_result = IF @.some /\ first THEN [@ EXCEPT !.q = r.q] ELSE @,
                          !.hist = with_param(@, m.param_name, s),
                          !.state = "SeenParameterValue"]
  ELSE LET r == token_or_quoted_string(m.input, m.c)
       IN  IF ~r.ok
           THEN return_none(m, r.c)
           ELSE [m EXCEPT !.c = r.c,
                          !.hist = with_param(@, m.param_name, slice(m.input, m.c, r.c)),
                          !.state = "SeenParameterValue"]

\* SeenEqual_arm reading a q value only for an alternative that matches.
SeenEqual_arm_q_of_match_only(m) ==
  IF m.is_q_param /\ m.cur_result.some
  THEN LET r == q_value(m.input, m.c)
           s == slice(m.input, m.c, r.c)
       IN  IF ~r.ok
           THEN return_none(m, r.c)
           ELSE [m EXCEPT !.c = r.c,
                          !.cur_result = [@ EXCEPT !.q = r.q],
                          !.hist = with_param(@, m.param_name, s),
                          !.state = "SeenParameterValue"]
  ELSE LET r == token_or_quoted_string(m.input, m.c)
       IN  IF ~r.ok
           THEN return_none(m, r.c)
           ELSE [m EXCEPT !.c = r.c,
                          !.hist = with_param(@, m.param_name, slice(m.input, m.c, r.c)),
                          !.state = "SeenParameterValue"]

SeenEqual_arm(m) ==
  IF m.is_q_param
  THEN LET r == q_value(m.input, m.c)
           s == slice(m.input, m.c, r.c)
           q == QValue_try_from_str(s)
       IN  IF ~r.ok
           THEN return_none(m, r.c)
           ELSE IF r.panic \/ (m.cur_result.some /\ ~(from_utf8_ok(s) /\ q.ok))
           THEN panic(m, r.c)
           ELSE [m EXCEPT !.c = r.c,
                          !.cur_result = IF @.some THEN [@ EXCEPT !.q = q.millis] ELSE @,
                          !.hist = with_param(@, m.param_name, s),
                          !.state = "SeenParameterValue"]
  ELSE LET r == token_or_quoted_string(m.input, m.c)
       IN  IF ~r.ok
           THEN return_none(m, r.c)
           ELSE [m EXCEPT !.c = r.c,
                          !.hist = with_param(@, m.param_name, slice(m.input, m.c, r.c)),
                          !.state = "SeenParameterValue"]

\* SeenParameterValue_arm without the return at end of input after
\* whitespace.
SeenParameterValue_arm_trailing_ows(m) ==
  LET c1 == ows(m.input, m.c)
      comma == byte(COMMA, m.input, c1)
      semi == byte(SEMICOLON, m.input, c1)
  IN  IF eof(m.input, c1)
      THEN [m EXCEPT !.c = c1]
      ELSE IF comma.ok
      THEN LET u == may_update_best_result(m.cur_result, m.best_result)
           IN  [m EXCEPT !.c = ows(m.input, comma.c),
                         !.cur_result = u.cur_result,
                         !.best_result = u.best_result,
                         !.state = "SearchingEncoding"]
      ELSE IF semi.ok
      THEN [m EXCEPT !.c = ows(m.input, semi.c), !.state = "SeenSemicolon"]
      ELSE return_none(m, c1)

\* SeenParameterValue_arm taking ';' as the end of the alternative.
SeenParameterValue_arm_semicolon_restarts(m) ==
  IF eof(m.input, m.c)
  THEN m
  ELSE LET c1 == ows(m.input, m.c)
           comma == byte(COMMA, m.input, c1)
           semi == byte(SEMICOLON, m.input, c1)
       IN  IF eof(m.input, c1)
           THEN return_none(m, c1)
           ELSE IF comma.ok \/ semi.ok
           THEN LET u == may_update_best_result(m.cur_result, m.best_result)
                IN  [m EXCEPT !.c = ows(m.input, c1 + 1),
                              !.cur_result = u.cur_result,
                              !.best_result = u.best_result,
                              !.state = "SearchingEncoding"]
           ELSE return_none(m, c1)

SeenParameterValue_arm(m) ==
  IF eof(m.input, m.c)
  THEN m
  ELSE LET c1 == ows(m.input, m.c)
           comma == byte(COMMA, m.input, c1)
           semi == byte(SEMICOLON, m.input, c1)
       IN  IF eof(m.input, c1)
           THEN return_none(m, c1)
           ELSE IF comma.ok
           THEN LET u == may_update_best_result(m.cur_result, m.best_result)
                IN  [m EXCEPT !.c = ows(m.input, comma.c),
                              !.cur_result = u.cur_result,
                              !.best_result = u.best_result,
                              !.state = "SearchingEncoding"]
           ELSE IF semi.ok
           THEN [m EXCEPT !.c = ows(m.input, semi.c), !.state = "SeenSemicolon"]
           ELSE return_none(m, c1)

\* After the loop: may_update_best_result, then best_result.take().
\* encoding_finish returning None when the input ends after a comma.
encoding_finish_after_element(m) ==
  LET u == may_update_best_result(m.cur_result, m.best_result)
  IN  IF m.state = "SearchingEncoding"
      THEN return_none(m, m.c)
      ELSE [m EXCEPT !.cur_result = u.cur_result,
                     !.best_result = NoMatch,
                     !.result = u.best_result,
                     !.pc = "done"]

encoding_finish(m) ==
  LET u == may_update_best_result(m.cur_result, m.best_result)
  IN  [m EXCEPT !.cur_result = u.cur_result,
                !.best_result = NoMatch,
                !.result = u.best_result,
                !.pc = "done"]

\* One iteration of the loop of match_for_encoding: the arm of the state.
encoding_iteration(m) ==
  CASE m.state = "SearchingEncoding" -> SearchingEncoding_arm(m)
    [] m.state = "SeenEncoding" -> SeenEncoding_arm(m)
    [] m.state = "SeenSemicolon" -> SeenSemicolon_arm(m)
    [] m.state = "SeenParameterName" -> SeenParameterName_arm(m)
    [] m.state = "SeenEqual" -> SeenEqual_arm(m)
    [] m.state = "SeenParameterValue" -> SeenParameterValue_arm(m)

\* The loop and the finalization run to the return.
RECURSIVE encoding_run(_)
encoding_run(m) ==
  IF m.pc # "loop"
  THEN m
  ELSE IF eof(m.input, m.c)
  THEN encoding_finish(m)
  ELSE encoding_run(encoding_iteration(m))

\* match_for_encoding(input, encoding) as one call: how it returned and what.
match_for_encoding(input, encoding) ==
  LET m == encoding_run(EncodingCall(input, encoding))
  IN  [pc |-> m.pc, result |-> m.result]

----------------------------------------------------------------------------
(* The headers and wanted encodings of the encoding-matcher runs.          *)

\* An upper bound on the number of comma-separated elements of a header.
MaxAlts == 2

\* The elements a header is made of: alternatives with and without
\* parameters and whitespace, the empty element, and malformed ones.
AltTexts ==
  { "gzip", "br", "*", "",
    "gzip;q=0.5", "br;q=0.9", "*;q=0.8", "x-Gzip;q=0.7",
    "gzip ; Q=0.8", "br;a=b;q=0", "gzip;q=0.9;a=\"x, =y\"", "*;q=0.3;q=1",
    "gzip\t;\tq=0.25 ", "br ",
    " gzip", "gzip; q =0.5", "br;q= 0.5", "gzip;a\t=b", "br/",
    "gzip;", "gzip;q", "*;q=", "br;q=2", "gzip;q=0.8235",
    "gzip;=", "gzip;a=\"x", "gzip;a=," }

RECURSIVE HeadersOf(_)
HeadersOf(n) ==
  IF n = 1
  THEN AltTexts
  ELSE {h \o "," \o a : h \in HeadersOf(n - 1), a \in AltTexts}

ListHeaders == UNION {HeadersOf(n) : n \in 1..MaxAlts}
ListWanted == {"gzip", "br"}

\* Single-token headers against a wider set of wanted encodings.
TokenHeaders ==
  { "gzip", "GZIP", "gZiP", "x-gzip", "X-GZip", "xgzip", "compress", "Compress",
    "x-compress", "X-COMPRESS", "br", "BR", "bR", "b2", "*", "**", "gzi", "gzipp",
    "x-br", "identity" }
TokenWanted ==
  { "gzip", "GzIp", "compress", "COMPRESS", "br", "Br", "x-gzip", "x-compress",
    "*", "identity", "" }

EncodingInputs ==
  {<<B(h), B(w)>> : h \in ListHeaders, w \in ListWanted}
    \cup {<<B(h), B(w)>> : h \in TokenHeaders, w \in TokenWanted}

\* The matchers that are not running in a specification.
EncodingIdle == [EncodingCall(<<>>, <<>>) EXCEPT !.pc = "idle"]

----------------------------------------------------------------------------
(* The specification of match_for_encoding: one action per arm of the      *)
(* match in the loop, and one for the code after the loop.                 *)

InLoop(st) == em.pc = "loop" /\ ~eof(em.input, em.c) /\ em.state = st

StepSearchingEncoding ==
  /\ InLoop("SearchingEncoding")
  /\ em' = SearchingEncoding_arm(em)
  /\ UNCHANGED <<mm, ord, call>>

StepSeenEncoding ==
  /\ InLoop("SeenEncoding")
  /\ em' = SeenEncoding_arm(em)
  /\ UNCHANGED <<mm, ord, call>>

StepSeenSemicolon ==
  /\ InLoop("SeenSemicolon")
  /\ em' = SeenSemicolon_arm(em)
  /\ UNCHANGED <<mm, ord, call>>

StepSeenParameterName ==
  /\ InLoop("SeenParameterName")
  /\ em' = SeenParameterName_arm(em)
  /\ UNCHANGED <<mm, ord, call>>

StepSeenEqual ==
  /\ InLoop("SeenEqual")
  /\ em' = SeenEqual_arm(em)
  /\ UNCHANGED <<mm, ord, call>>

StepSeenParameterValue ==
  /\ InLoop("SeenParameterValue")
  /\ em' = SeenParameterValue_arm(em)
  /\ UNCHANGED <<mm, ord, call>>

EncodingFinish ==
  /\ em.pc = "loop"
  /\ eof(em.input, em.c)
  /\ em' = encoding_finish(em)
  /\ UNCHANGED <<mm, ord, call>>

MimeIdle == [pc |-> "idle"]  \* no call of match_for_mime_type
OrdIdle == [pc |-> "idle"]
CallIdle == [pc |-> "idle"]

Init ==
  /\ \E in \in EncodingInputs : em = EncodingCall(in[1], in[2])
  /\ mm = MimeIdle
  /\ ord = OrdIdle
  /\ call = CallIdle

Next ==
  \/ StepSearchingEncoding
  \/ StepSeenEncoding
  \/ StepSeenSemicolon
  \/ StepSeenParameterName
  \/ StepSeenEqual
  \/ StepSeenParameterValue
  \/ EncodingFinish

Spec == Init /\ [][Next]_vars

----------------------------------------------------------------------------
(* What the claims are stated against: the grammar and the ranking written *)
(* down directly, without the lexer, the tables or the Ord implementation. *)

RefIsOws(b) == b \in {9, 32}

RefIsAlpha(b) == (UPPER_A <= b /\ b <= UPPER_Z) \/ (LOWER_A <= b /\ b <= LOWER_Z)

\* tchar of RFC 7230: ! # $ % & ' * + - . ^ _ ` | ~, DIGIT, ALPHA
RefIsTchar(b) ==
  \/ RefIsAlpha(b)
  \/ (DIGIT0 <= b /\ b <= DIGIT9)
  \/ b \in {33, 35, 36, 37, 38, 39, 42, 43, 45, 46, 94, 95, 96, 124, 126}

RefLower(b) == IF UPPER_A <= b /\ b <= UPPER_Z THEN b + 32 ELSE b

RefEqIgnoreCase(a, b) ==
  /\ Len(a) = Len(b)
  /\ \A i \in 1..Len(a) : RefLower(a[i]) = RefLower(b[i])

\* The kind of an alternative's token for a wanted encoding: "Exact",
\* "Wildcard" or "none".
RefKind(tok, wanted) ==
  IF \/ RefEqIgnoreCase(tok, wanted)
     \/ (RefEqIgnoreCase(wanted, B("gzip")) /\ RefEqIgnoreCase(tok, B("x-gzip")))
     \/ (RefEqIgnoreCase(wanted, B("compress")) /\ RefEqIgnoreCase(tok, B("x-compress")))
  THEN "Exact"
  ELSE IF tok = <<42>> THEN "Wildcard" ELSE "none"

\* The thousandths of a q literal 0, 0., 0.d, 0.dd, 0.ddd, 1, 1., 1.0, ...
RefMillis(v) ==
  IF v[1] = DIGIT1
  THEN 1000
  ELSE (IF Len(v) >= 3 THEN 100 * (v[3] - DIGIT0) ELSE 0)
       + (IF Len(v) >= 4 THEN 10 * (v[4] - DIGIT0) ELSE 0)
       + (IF Len(v) >= 5 THEN v[5] - DIGIT0 ELSE 0)

IsQName(name) == name = B("q") \/ name = B("Q")

\* The quality of an alternative with these parameters: its last q
\* parameter, or 1000.
RefQuality(params) ==
  LET qs == {i \in 1..Len(params) : IsQName(params[i].name)}
  IN  IF qs = {}
      THEN 1000
      ELSE RefMillis(params[CHOOSE i \in qs : \A j \in qs : j <= i].value)

\* The result of one alternative of the history.
RefAlt(alt, wanted) ==
  LET kind == RefKind(alt.tok, wanted)
  IN  IF kind = "none"
      THEN NoMatch
      ELSE Match(IF kind = "Exact" THEN 1 ELSE 0, RefQuality(alt.params))

\* The rank of a result: no match below every match, then kind, then q.
RefRank(r) == IF ~r.some THEN -1 ELSE 1001 * r.match_type + r.q

\* The greatest result among the alternatives, NoMatch when none matches.
RefBest(hist, wanted) ==
  LET results == {RefAlt(hist[i], wanted) : i \in 1..Len(hist)} \cup {NoMatch}
  IN  CHOOSE r \in results : \A o \in results : RefRank(o) <= RefRank(r)

\* The cursor after the whitespace at c.
RefAfterOws(input, c) ==
  CHOOSE k \in c..Len(input) :
    /\ \A j \in (c + 1)..k : RefIsOws(input[j])
    /\ (k = Len(input) \/ ~RefIsOws(input[k + 1]))

\* The bytes at the cursor do not start the production the state expects.
Mismatch(m) ==
  LET b == m.input[m.c + 1]
      k == RefAfterOws(m.input, m.c)
  IN  CASE m.state \in {"SearchingEncoding", "SeenSemicolon"} -> ~RefIsTchar(b)
        [] m.state \in {"SeenEncoding", "SeenParameterValue"} ->
             k < Len(m.input) /\ m.input[k + 1] \notin {44, 59}
        [] m.state = "SeenParameterName" -> b # 61
        [] m.state = "SeenEqual" ->
             IF m.is_q_param
             THEN b \notin {DIGIT0, DIGIT1}
             ELSE /\ ~RefIsTchar(b)
                  /\ \/ b # 34
                     \/ \A j \in (m.c + 2)..Len(m.input) : m.input[j] # 34

\* C1: whenever the bytes at the cursor do not match the production the
\* current state expects, that step of the scan returns no match, whatever
\* best_result already holds.
C1_FailClosed ==
  [][(em.pc = "loop" /\ ~eof(em.input, em.c) /\ Mismatch(em))
       => (em'.pc = "abort" /\ em'.result = NoMatch)]_vars

\* A scan that aborted after an earlier alternative had matched.
C1_Witness ==
  /\ em.pc = "abort"
  /\ em.best_result.some
  /\ em.result = NoMatch
  /\ Len(em.hist) = 2

\* C2: a scan that does not abort returns the greatest result of the
\* alternatives that match the wanted encoding, each with its own quality,
\* and no match exactly when no alternative matches.
C2_BestOfMatching ==
  em.pc = "done" => em.result = RefBest(em.hist, em.encoding)

\* A finished scan of two matching alternatives, the first the better one,
\* one of them with a q parameter.
C2_Witness ==
  /\ em.pc = "done"
  /\ Len(em.hist) = 2
  /\ RefAlt(em.hist[1], em.encoding).some
  /\ RefAlt(em.hist[2], em.encoding).some
  /\ RefRank(RefAlt(em.hist[1], em.encoding)) > RefRank(RefAlt(em.hist[2], em.encoding))
  /\ RefAlt(em.hist[1], em.encoding).q < 1000
  /\ em.result = RefAlt(em.hist[1], em.encoding)

\* C4: the token of an alternative is classified Exact iff it equals the
\* wanted encoding ignoring ASCII case or is the x- alias of a wanted gzip
\* or compress, else Wildcard iff it is exactly "*", else it does not match;
\* and a token that does not match never ends the scan.
C4_Classification ==
  /\ (em.state = "SeenEncoding" /\ em.pc \in {"loop", "abort"}) =>
       LET kind == RefKind(em.hist[Len(em.hist)].tok, em.encoding)
       IN  /\ kind = "Exact" <=> (em.cur_result.some /\ em.cur_result.match_type = Exact)
           /\ kind = "Wildcard" <=> (em.cur_result.some /\ em.cur_result.match_type = Wildcard)
           /\ kind = "none" <=> ~em.cur_result.some
  /\ (em.state = "SearchingEncoding" /\ em.pc = "abort") =>
       ~RefIsTchar(em.input[em.c + 1])

\* An x- alias in another case than the wanted encoding, classified Exact.
C4_Witness ==
  /\ em.state = "SeenEncoding"
  /\ em.pc = "loop"
  /\ ~RefEqIgnoreCase(em.hist[Len(em.hist)].tok, em.encoding)
  /\ em.hist[Len(em.hist)].tok # B("x-gzip")
  /\ em.cur_result.some
  /\ em.cur_result.match_type = Exact

\* C8: the quality of a matching alternative is 1000 until a parameter
\* named q or Q, at any position, overwrites it with its value; a parameter
\* of another name leaves it as it is.
C8_Quality ==
  (em.state # "SearchingEncoding" /\ em.cur_result.some) =>
    em.cur_result.q = RefQuality(em.hist[Len(em.hist)].params)

\* A matching alternative whose q parameter is followed by a parameter of
\* another name with a quoted-string value.
C8_Witness ==
  /\ em.state = "SeenParameterValue"
  /\ em.cur_result.some
  /\ em.cur_result.q = 900
  /\ LET params == em.hist[Len(em.hist)].params
     IN  /\ Len(params) = 2
         /\ ~IsQName(params[2].name)
         /\ params[2].value[1] = 34

\* Index i of the input is inside a quoted string: an odd number of double
\* quotes precedes it (the headers of the model hold no escaped quote).
InQuotes(input, i) ==
  Cardinality({j \in 1..(i - 1) : input[j] = 34}) % 2 = 1

\* The header has a space or tab next to an '=' outside a quoted string.
WsAroundEq(input) ==
  \E i \in 1..Len(input) :
    /\ input[i] = 61
    /\ ~InQuotes(input, i)
    /\ \/ (i > 1 /\ RefIsOws(input[i - 1]))
       \/ (i < Len(input) /\ RefIsOws(input[i + 1]))

\* C9: a header with whitespace before or after the '=' of a parameter
\* gets no match for the whole header.
C9_NoWsAroundEq ==
  (em.pc # "loop" /\ WsAroundEq(em.input)) => (em.pc = "abort" /\ em.result = NoMatch)

\* Such a header, rejected although an earlier alternative matched.
C9_Witness ==
  /\ em.pc = "abort"
  /\ WsAroundEq(em.input)
  /\ em.best_result.some

\* C10 as stated: in SeenEncoding and SeenParameterValue, end of input after
\* optional whitespace finalizes the alternative and returns the best result.
C10_Original ==
  (em.state \in {"SeenEncoding", "SeenParameterValue"}
     /\ em.pc # "loop" /\ em.c = Len(em.input))
    => (em.pc = "done" /\ em.result = RefBest(em.hist, em.encoding))

\* C10 amended: in these two states, end of input right after the token or
\* the parameter value finalizes and returns the best result, and end of
\* input after one or more whitespace bytes returns no match.
C10_EndOfInput ==
  (em.state \in {"SeenEncoding", "SeenParameterValue"}
     /\ em.pc # "loop" /\ em.c = Len(em.input))
    => IF RefIsOws(em.input[Len(em.input)])
       THEN em.pc = "abort" /\ em.result = NoMatch
       ELSE em.pc = "done" /\ em.result = RefBest(em.hist, em.encoding)

\* A matching alternative whose parameter value is followed by whitespace
\* and the end of input.
C10_Witness ==
  /\ em.state = "SeenParameterValue"
  /\ em.pc = "abort"
  /\ em.c = Len(em.input)
  /\ em.cur_result.some
  /\ RefIsOws(em.input[Len(em.input)])

----------------------------------------------------------------------------
(* src/src/mime_type_matcher.rs                                            *)
(* An Option<MimeTypeMatch> has the shape of an Option<EncodingMatch>.     *)

\* enum MimeTypeMatchType, in declaration order (the derived Ord).
MainTypeWildcard == 0
SubTypeWildcard == 1
MimeExact == 2

\* impl Ord for MimeTypeMatch with the quality compared first.
MimeTypeMatch_cmp_q_first(self, other) ==
  IF cmp_int(self.q, other.q) # Equal
  THEN cmp_int(self.q, other.q)
  ELSE cmp_int(self.match_type, other.match_type)

\* impl Ord for MimeTypeMatch: (match_type, &q).cmp(&(other.match_type, &other.q))
MimeTypeMatch_cmp(self, other) ==
  IF cmp_int(self.match_type, other.match_type) # Equal
  THEN cmp_int(self.match_type, other.match_type)
  ELSE cmp_int(self.q, other.q)

\* Option<MimeTypeMatch>::gt
MimeOption_gt(a, b) ==
  IF ~a.some THEN FALSE
  ELSE IF ~b.some THEN TRUE
  ELSE MimeTypeMatch_cmp(a, b) = Greater

\* mime_may_update_best_result without the comparison: the last match wins.
mime_may_update_last_wins(cur_result, best_result) ==
  IF cur_result.some
  THEN [cur_result |-> NoMatch, best_result |-> cur_result]
  ELSE [cur_result |-> cur_result, best_result |-> best_result]

\* MimeTypeMatcher::may_update_best_result: the two slots after the call.
mime_may_update_best_result(cur_result, best_result) ==
  IF MimeOption_gt(cur_result, best_result)
  THEN [cur_result |-> NoMatch, best_result |-> cur_result]
  ELSE [cur_result |-> cur_result, best_result |-> best_result]

\* split_mime_type: splitn(2, '/'), None when there is no '/'.
split_mime_type(mime_type) ==
  LET slashes == {i \in 1..Len(mime_type) : mime_type[i] = SLASH}
  IN  IF slashes = {}
      THEN [some |-> FALSE, main_type |-> <<>>, subtype |-> <<>>]
      ELSE LET i == CHOOSE i \in slashes : \A j \in slashes : i <= j
           IN  [some |-> TRUE,
                main_type |-> SubSeq(mime_type, 1, i - 1),
                subtype |-> SubSeq(mime_type, i + 1, Len(mime_type))]

\* An Option<MimeTypeMatchType>.
NoType == [some |-> FALSE, match_type |-> 0]
SomeType(match_type) == [some |-> TRUE, match_type |-> match_type]

\* get_mime_type_match_type with "*" as main type matching any subtype.
get_mime_type_match_type_any_subtype(main_type, subtype, want_main_type, want_subtype) ==
  IF main_type = STAR_TOKEN
  THEN SomeType(MainTypeWildcard)
  ELSE IF bytes_eq_ignore_case(main_type, want_main_type)
  THEN IF bytes_eq_ignore_case(subtype, want_subtype)
       THEN SomeType(MimeExact)
       ELSE IF subtype = STAR_TOKEN THEN SomeType(SubTypeWildcard) ELSE NoType
  ELSE NoType

get_mime_type_match_type(main_type, subtype, want_main_type, want_subtype) ==
  IF main_type = STAR_TOKEN
  THEN IF subtype = STAR_TOKEN THEN SomeType(MainTypeWildcard) ELSE NoType
  ELSE IF bytes_eq_ignore_case(main_type, want_main_type)
  THEN IF bytes_eq_ignore_case(subtype, want_subtype)
       THEN SomeType(MimeExact)
       ELSE IF subtype = STAR_TOKEN THEN SomeType(SubTypeWildcard) ELSE NoType
  ELSE NoType

(* The lexer that mime_type_matcher.rs imports (token, slash, comma,       *)
(* semicolon, equal, ows, q_value, parameter_value over a position) is not *)
(* among the sources; its operations follow the lexer's contract: each     *)
(* consumes one production at pos, or fails and leaves pos where it was.   *)

mime_byte(b, value, pos) == byte(b, value, pos)

mime_token(value, pos) ==
  LET r == token(value, pos) IN IF r.ok THEN r ELSE PErr(pos)

mime_ows(value, pos) == ows(value, pos)

mime_parameter_value(value, pos) ==
  LET r == token_or_quoted_string(value, pos) IN IF r.ok THEN r ELSE PErr(pos)

\* [ok, c, q]
mime_q_value(value, pos) ==
  LET r == q_value(value, pos)
  IN  IF r.ok
      THEN [ok |-> TRUE, c |-> r.c, q |-> r.q]
      ELSE [ok |-> FALSE, c |-> pos, q |-> 0]

\* MimeTypeMatcher::new followed by the entry of match_mime_type.  hist is
\* a history of the slices taken, one entry per type "/" subtype;
\* match_type is the last value of get_mime_type_match_type.
MimeCall(value, mime_type) ==
  LET want == split_mime_type(mime_type)
  IN  [ value |-> value, mime_type |-> mime_type,
        want_main_type |-> want.main_type, want_subtype |-> want.subtype,
        pos |-> 0, state |-> "SearchingMainType",
        cur_result |-> NoMatch, best_result |-> NoMatch,
        cur_main_type |-> <<>>, is_q_param |-> FALSE,
        param_name |-> <<>>, match_type |-> NoType, hist |-> <<>>,
        pc |-> IF want.some THEN "loop" ELSE "abort",
        result |-> NoMatch ]

mime_return_none(m) == [m EXCEPT !.pc = "abort", !.result = NoMatch]

SearchingMainType_arm(m) ==
  LET r == mime_token(m.value, m.pos)
  IN  IF r.ok
      THEN [m EXCEPT !.pos = r.c,
                     !.cur_main_type = slice(m.value, m.pos, r.c),
                     !.state = "SeenMainType"]
      ELSE mime_return_none(m)

SeenMainType_arm(m) ==
  LET r == mime_byte(SLASH, m.value, m.pos)
  IN  IF r.ok
      THEN [m EXCEPT !.pos = r.c, !.state = "SeenSlash"]
      ELSE mime_return_none(m)

SeenSlash_arm(m) ==
  LET r == mime_token(m.value, m.pos)
      subtype == slice(m.value, m.pos, r.c)
      mt == get_mime_type_match_type(m.cur_main_type, subtype,
                                     m.want_main_type, m.want_subtype)
  IN  IF r.ok
      THEN [m EXCEPT !.pos = r.c,
                     !.match_type = mt,
                     !.cur_result =
                        IF mt.some
                        THEN Match(mt.match_type, from_millis(1000).millis)
                        ELSE @,
                     !.hist = Append(@, [main_type |-> m.cur_main_type,
                                         subtype |-> subtype, params |-> <<>>]),
                     !.state = "SeenSubType"]
      ELSE mime_return_none(m)

\* The body shared by State::SeenSubType and State::SeenParameterValue up to
\* the order in which ';' and ',' are tried.
after_element(m) ==
  LET p1 == mime_ows(m.value, m.pos)
      semi == mime_byte(SEMICOLON, m.value, p1)
      comma == mime_byte(COMMA, m.value, p1)
  IN  IF semi.ok
      THEN [m EXCEPT !.pos = mime_ows(m.value, semi.c), !.state = "SeenSemicolon"]
      ELSE IF comma.ok
      THEN LET u == mime_may_update_best_result(m.cur_result, m.best_result)
           IN  [m EXCEPT !.pos = mime_ows(m.value, comma.c),
                         !.cur_result = u.cur_result,
                         !.best_result = u.best_result,
                         !.state = "SearchingMainType"]
      ELSE [mime_return_none(m) EXCEPT !.pos = p1]

SeenSubType_arm(m) == after_element(m)

MimeSeenSemicolon_arm(m) ==
  LET r == mime_token(m.value, m.pos)
      param_name == slice(m.value, m.pos, r.c)
  IN  IF r.ok
      THEN [m EXCEPT !.pos = r.c,
                     !.param_name = param_name,
                     !.is_q_param = bytes_eq_ignore_case(param_name, Q_NAME),
                     !.state = "SeenParameterName"]
      ELSE mime_return_none(m)

MimeSeenParameterName_arm(m) ==
  LET r == mime_byte(EQ_SIGN, m.value, m.pos)
  IN  IF r.ok
      THEN [m EXCEPT !.pos = r.c, !.state = "SeenEqual"]
      ELSE mime_return_none(m)

MimeSeenEqual_arm(m) ==
  IF m.is_q_param
  THEN LET r == mime_q_value(m.value, m.pos)
       IN  IF r.ok
           THEN [m EXCEPT !.pos = r.c,
                          !.cur_result = IF @.some THEN [@ EXCEPT !.q = r.q] ELSE @,
                          !.hist = with_param(@, m.param_name, slice(m.value, m.pos, r.c)),
                          !.state = "SeenParameterValue"]
           ELSE mime_return_none(m)
  ELSE LET r == mime_parameter_value(m.value, m.pos)
       IN  IF r.ok
           THEN [m EXCEPT !.pos = r.c,
                          !.hist = with_param(@, m.param_name, slice(m.value, m.pos, r.c)),
                          !.state = "SeenParameterValue"]
           ELSE mime_return_none(m)

MimeSeenParameterValue_arm(m) == after_element(m)

\* After the loop: may_update_best_result, then best_result.take().
mime_finish(m) ==
  LET u == mime_may_update_best_result(m.cur_result, m.best_result)
  IN  [m EXCEPT !.cur_result = u.cur_result,
                !.best_result = NoMatch,
                !.result = u.best_result,
                !.pc = "done"]

----------------------------------------------------------------------------
(* The specification of match_for_mime_type.                               *)

\* An upper bound on the number of comma-separated elements of an Accept
\* header value.
MaxMimeAlts == 3

MimeAltTexts ==
  { "text/html", "*/*", "image/png", "text/*;q=0.5",
    "*/*;q=0.1", "*/*;q=0", "image/png;q=1", "text/html;q=0.3",
    "text/html ; a=\"b\" ; Q=0.7", "text/" }

RECURSIVE MimeHeadersOf(_)
MimeHeadersOf(n) ==
  IF n = 1
  THEN MimeAltTexts
  ELSE {h \o "," \o a : h \in MimeHeadersOf(n - 1), a \in MimeAltTexts}

MimeListHeaders == UNION {MimeHeadersOf(n) : n \in 1..MaxMimeAlts}
MimeListWanted == {"text/html"}

\* Single media ranges against a wider set of wanted media types.
MimeTypeHeaders ==
  { "*/*", "text/html", "TEXT/HTML", "Text/html", "text/*", "TEXT/*", "*/html",
    "text/plain", "image/html", "image/*", "text/**", "**/*", "*/HTML", "tex/html" }
MimeTypeWanted ==
  { "text/html", "Text/HTML", "text/*", "*/html", "*/*", "image/png", "text",
    "text/html/x", "" }

MimeInputs ==
  {<<B(h), B(w)>> : h \in MimeListHeaders, w \in MimeListWanted}
    \cup {<<B(h), B(w)>> : h \in MimeTypeHeaders, w \in MimeTypeWanted}

MimeInLoop(st) == mm.pc = "loop" /\ mm.pos < Len(mm.value) /\ mm.state = st

StepSearchingMainType ==
  /\ MimeInLoop("SearchingMainType")
  /\ mm' = SearchingMainType_arm(mm)
  /\ UNCHANGED <<em, ord, call>>

StepSeenMainType ==
  /\ MimeInLoop("SeenMainType")
  /\ mm' = SeenMainType_arm(mm)
  /\ UNCHANGED <<em, ord, call>>

StepSeenSlash ==
  /\ MimeInLoop("SeenSlash")
  /\ mm' = SeenSlash_arm(mm)
  /\ UNCHANGED <<em, ord, call>>

StepSeenSubType ==
  /\ MimeInLoop("SeenSubType")
  /\ mm' = SeenSubType_arm(mm)
  /\ UNCHANGED <<em, ord, call>>

StepMimeSeenSemicolon ==
  /\ MimeInLoop("SeenSemicolon")
  /\ mm' = MimeSeenSemicolon_arm(mm)
  /\ UNCHANGED <<em, ord, call>>

StepMimeSeenParameterName ==
  /\ MimeInLoop("SeenParameterName")
  /\ mm' = MimeSeenParameterName_arm(mm)
  /\ UNCHANGED <<em, ord, call>>

StepMimeSeenEqual ==
  /\ MimeInLoop("SeenEqual")
  /\ mm' = MimeSeenEqual_arm(mm)
  /\ UNCHANGED <<em, ord, call>>

StepMimeSeenParameterValue ==
  /\ MimeInLoop("SeenParameterValue")
  /\ mm' = MimeSeenParameterValue_arm(mm)
  /\ UNCHANGED <<em, ord, call>>

MimeFinish ==
  /\ mm.pc = "loop"
  /\ mm.pos >= Len(mm.value)
  /\ mm' = mime_finish(mm)
  /\ UNCHANGED <<em, ord, call>>

InitMime ==
  /\ em = EncodingIdle
  /\ \E in \in MimeInputs : mm = MimeCall(in[1], in[2])
  /\ ord = OrdIdle
  /\ call = CallIdle

NextMime ==
  \/ StepSearchingMainType
  \/ StepSeenMainType
  \/ StepSeenSlash
  \/ StepSeenSubType
  \/ StepMimeSeenSemicolon
  \/ StepMimeSeenParameterName
  \/ StepMimeSeenEqual
  \/ StepMimeSeenParameterValue
  \/ MimeFinish

SpecMime == InitMime /\ [][NextMime]_vars

\* The kind of a media range main/sub for a wanted wmain/wsub, by the rules
\* in the order given: "MainTypeWildcard", "Exact", "SubTypeWildcard", "none".
RefMimeKindAsStated(main, sub, wmain, wsub) ==
  IF main = <<42>> /\ sub = <<42>> THEN "MainTypeWildcard"
  ELSE IF RefEqIgnoreCase(main, wmain) /\ RefEqIgnoreCase(sub, wsub) THEN "Exact"
  ELSE IF RefEqIgnoreCase(main, wmain) /\ sub = <<42>> THEN "SubTypeWildcard"
  ELSE "none"

\* The same with Exact only for a main type other than "*".
RefMimeKind(main, sub, wmain, wsub) ==
  IF main = <<42>> /\ sub = <<42>> THEN "MainTypeWildcard"
  ELSE IF main # <<42>> /\ RefEqIgnoreCase(main, wmain) /\ RefEqIgnoreCase(sub, wsub)
  THEN "Exact"
  ELSE IF main # <<42>> /\ RefEqIgnoreCase(main, wmain) /\ sub = <<42>>
  THEN "SubTypeWildcard"
  ELSE "none"

MimeKindOf(t) ==
  IF ~t.some THEN "none"
  ELSE CASE t.match_type = MainTypeWildcard -> "MainTypeWildcard"
         [] t.match_type = SubTypeWildcard -> "SubTypeWildcard"
         [] t.match_type = MimeExact -> "Exact"

\* The result of one media range of the history.
RefMimeAlt(alt, wmain, wsub) ==
  LET kind == RefMimeKind(alt.main_type, alt.subtype, wmain, wsub)
  IN  IF kind = "none"
      THEN NoMatch
      ELSE Match(CASE kind = "MainTypeWildcard" -> 0
                   [] kind = "SubTypeWildcard" -> 1
                   [] kind = "Exact" -> 2,
                 RefQuality(alt.params))

RefMimeBest(hist, wmain, wsub) ==
  LET results == {RefMimeAlt(hist[i], wmain, wsub) : i \in 1..Len(hist)} \cup {NoMatch}
  IN  CHOOSE r \in results : \A o \in results : RefRank(o) <= RefRank(r)

\* C3: a scan of match_for_mime_type that does not abort returns the
\* greatest result of the matching media ranges only, each with its own q
\* parameter or 1000; a range that does not match contributes nothing.
C3_MatchingOnly ==
  mm.pc = "done" => mm.result = RefMimeBest(mm.hist, mm.want_main_type, mm.want_subtype)

\* C5 as stated: get_mime_type_match_type gives MainTypeWildcard for "*/*",
\* Exact when main and sub equal the wanted ones ignoring case,
\* SubTypeWildcard when main equals and sub is "*", and no match otherwise.
C5_Original ==
  (mm.state = "SeenSubType" /\ mm.pc = "loop") =>
    MimeKindOf(mm.match_type) =
      RefMimeKindAsStated(mm.hist[Len(mm.hist)].main_type, mm.hist[Len(mm.hist)].subtype,
                          mm.want_main_type, mm.want_subtype)

\* C5 amended: Exact and SubTypeWildcard only for a main type other than
\* "*"; "*" as main type matches only as "*/*".
C5_Classification ==
  (mm.state = "SeenSubType" /\ mm.pc = "loop") =>
    MimeKindOf(mm.match_type) =
      RefMimeKind(mm.hist[Len(mm.hist)].main_type, mm.hist[Len(mm.hist)].subtype,
                  mm.want_main_type, mm.want_subtype)

\* The media range "*" "/" sub against a wanted "*" "/" sub: no match.
C5_Witness ==
  /\ mm.state = "SeenSubType"
  /\ mm.pc = "loop"
  /\ mm.hist[Len(mm.hist)].main_type = <<42>>
  /\ mm.want_main_type = <<42>>
  /\ mm.hist[Len(mm.hist)].subtype # <<42>>
  /\ RefEqIgnoreCase(mm.hist[Len(mm.hist)].subtype, mm.want_subtype)
  /\ ~mm.match_type.some

----------------------------------------------------------------------------
(* The orders of EncodingMatch and MimeTypeMatch.                          *)

\* derive(PartialEq) of EncodingMatch and of MimeTypeMatch: field by field.
EncodingMatch_eq(self, other) ==
  self.match_type = other.match_type /\ self.q = other.q

MimeTypeMatch_eq(self, other) ==
  self.match_type = other.match_type /\ self.q = other.q

\* The qualities compared, in thousandths.
OrdMillis == {0, 1, 500, 900, 999, 1000}

EncodingMatches ==
  {[match_type |-> k, q |-> from_millis(q).millis] : k \in {Wildcard, Exact}, q \in OrdMillis}

MimeTypeMatches ==
  {[match_type |-> k, q |-> from_millis(q).millis] :
     k \in {MainTypeWildcard, SubTypeWildcard, MimeExact}, q \in OrdMillis}

OrdCall(ty, a, b, c) ==
  [pc |-> "ready", ty |-> ty, a |-> a, b |-> b, c |-> c,
   ab |-> Equal, ba |-> Equal, bc |-> Equal, ac |-> Equal, eq_ab |-> FALSE]

\* a.cmp(&b), b.cmp(&a), b.cmp(&c), a.cmp(&c) and a == b on EncodingMatch.
CmpEncoding ==
  /\ ord.pc = "ready"
  /\ ord.ty = "EncodingMatch"
  /\ ord' = [ord EXCEPT !.pc = "done",
                        !.ab = EncodingMatch_cmp(ord.a, ord.b),
                        !.ba = EncodingMatch_cmp(ord.b, ord.a),
                        !.bc = EncodingMatch_cmp(ord.b, ord.c),
                        !.ac = EncodingMatch_cmp(ord.a, ord.c),
                        !.eq_ab = EncodingMatch_eq(ord.a, ord.b)]
  /\ UNCHANGED <<em, mm, call>>

\* The same on MimeTypeMatch.
CmpMime ==
  /\ ord.pc = "ready"
  /\ ord.ty = "MimeTypeMatch"
  /\ ord' = [ord EXCEPT !.pc = "done",
                        !.ab = MimeTypeMatch_cmp(ord.a, ord.b),
                        !.ba = MimeTypeMatch_cmp(ord.b, ord.a),
                        !.bc = MimeTypeMatch_cmp(ord.b, ord.c),
                        !.ac = MimeTypeMatch_cmp(ord.a, ord.c),
                        !.eq_ab = MimeTypeMatch_eq(ord.a, ord.b)]
  /\ UNCHANGED <<em, mm, call>>

InitOrd ==
  /\ em = EncodingIdle
  /\ mm = MimeIdle
  /\ call = CallIdle
  /\ \/ \E a, b, c \in EncodingMatches : ord = OrdCall("EncodingMatch", a, b, c)
     \/ \E a, b, c \in MimeTypeMatches : ord = OrdCall("MimeTypeMatch", a, b, c)

NextOrd ==
  \/ CmpEncoding
  \/ CmpMime

SpecOrd == InitOrd /\ [][NextOrd]_vars

\* The lexicographic order of (match_type, q), the kinds by their rank.
RefLexCmp(a, b) ==
  IF a.match_type < b.match_type THEN Less
  ELSE IF a.match_type > b.match_type THEN Greater
  ELSE IF a.q < b.q THEN Less
  ELSE IF a.q > b.q THEN Greater
  ELSE Equal

\* A total order on the compared triple: the converse comparison is the
\* opposite, and the comparison is transitive.
OrdTotal ==
  /\ ord.ab \in {Less, Equal, Greater}
  /\ ord.ba = -ord.ab
  /\ (ord.ab = Less /\ ord.bc = Less) => ord.ac = Less
  /\ (ord.ab = Equal /\ ord.bc = Equal) => ord.ac = Equal
  /\ (ord.ab \in {Less, Equal} /\ ord.bc \in {Less, Equal}) => ord.ac \in {Less, Equal}

\* C6: EncodingMatch is totally ordered lexicographically by (match_type, q)
\* with Wildcard < Exact: the same kind compares by quality, two results are
\* equal only if both fields are equal, and Exact is greater than Wildcard
\* whatever the qualities.
C6_EncodingMatchOrder ==
  (ord.pc = "done" /\ ord.ty = "EncodingMatch") =>
    /\ Wildcard < Exact
    /\ ord.ab = RefLexCmp(ord.a, ord.b)
    /\ OrdTotal
    /\ ord.a.match_type = ord.b.match_type => ord.ab = cmp_int(ord.a.q, ord.b.q)
    /\ (ord.ab = Equal) <=> (ord.a.match_type = ord.b.match_type /\ ord.a.q = ord.b.q)
    /\ ord.eq_ab <=> (ord.a.match_type = ord.b.match_type /\ ord.a.q = ord.b.q)
    /\ (ord.a.match_type = Exact /\ ord.b.match_type = Wildcard) => ord.ab = Greater

\* Wildcard q=1000 compared with Exact q=900: Less.
C6_Witness ==
  /\ ord.pc = "done"
  /\ ord.ty = "EncodingMatch"
  /\ ord.a = [match_type |-> Wildcard, q |-> 1000]
  /\ ord.b = [match_type |-> Exact, q |-> 900]
  /\ ord.ab = Less
  /\ ord.ba = Greater

\* C7: MimeTypeMatch is totally ordered lexicographically by (match_type, q)
\* with MainTypeWildcard < SubTypeWildcard < Exact: a stronger kind is
\* greater for any pair of qualities, and within one kind the higher quality
\* is greater.
C7_MimeTypeMatchOrder ==
  (ord.pc = "done" /\ ord.ty = "MimeTypeMatch") =>
    /\ MainTypeWildcard < SubTypeWildcard
    /\ SubTypeWildcard < MimeExact
    /\ ord.ab = RefLexCmp(ord.a, ord.b)
    /\ OrdTotal
    /\ ord.a.match_type > ord.b.match_type => ord.ab = Greater
    /\ (ord.a.match_type = ord.b.match_type /\ ord.a.q > ord.b.q) => ord.ab = Greater

\* SubTypeWildcard q=0 compared with MainTypeWildcard q=1000, itself below
\* Exact q=0.
C7_Witness ==
  /\ ord.pc = "done"
  /\ ord.ty = "MimeTypeMatch"
  /\ ord.a = [match_type |-> SubTypeWildcard, q |-> 0]
  /\ ord.b = [match_type |-> MainTypeWildcard, q |-> 1000]
  /\ ord.c = [match_type |-> MimeExact, q |-> 0]
  /\ ord.ab = Greater
  /\ ord.bc = Less

----------------------------------------------------------------------------
(* Headers that end inside a parameter block, or in whitespace.            *)

\* t is OWS, then tchars, and nothing else, or the same with a final "=":
\* what is left of a parameter that stops before its value.
RefParamTail(t) ==
  \E k \in 0..Len(t) : \E l \in k..Len(t) :
    /\ \A i \in 1..k : RefIsOws(t[i])
    /\ \A i \in (k + 1)..l : RefIsTchar(t[i])
    /\ \/ l = Len(t)
       \/ l > k /\ l + 1 = Len(t) /\ t[l + 1] = 61

\* The header ends right after a ";" (and optional whitespace), right after
\* a parameter name, or right after "=".
EndsInParamBlock(input) ==
  \E i \in 1..Len(input) :
    /\ input[i] = 59
    /\ RefParamTail(SubSeq(input, i + 1, Len(input)))

\* C11: a header that ends inside a parameter block gives no match for
\* every wanted encoding, also when the token of the alternative matches.
C11_NoPendingConstruct ==
  (em.pc \in {"done", "abort"} /\ EndsInParamBlock(em.input)) => ~em.result.some

\* The header begins with whitespace, or it ends with whitespace that
\* follows its last alternative: the last byte before the final whitespace
\* is not the "," or ";" that would open another element or parameter.
RefWsBoundary(input) ==
  /\ Len(input) > 0
  /\ \/ RefIsOws(input[1])
     \/ /\ RefIsOws(input[Len(input)])
        /\ LET k == CHOOSE i \in 1..Len(input) :
                      /\ ~RefIsOws(input[i])
                      /\ \A j \in (i + 1)..Len(input) : RefIsOws(input[j])
           IN  input[k] \notin {44, 59}

----------------------------------------------------------------------------
(* Termination of the two matchers.                                       *)

\* An upper bound on the length of the headers made of arbitrary bytes.
MaxRawLen == 3

\* Bytes that take the lexer through its branches: a tchar, "q", the
\* delimiters, whitespace, the quote, a digit, and a byte that is not ASCII.
RawBytes == {97, 113, 59, 61, 44, 32, 34, 48, 47, 255}

RECURSIVE RawSeqs(_)
RawSeqs(n) ==
  IF n = 0
  THEN {<<>>}
  ELSE {Append(r, b) : r \in RawSeqs(n - 1), b \in RawBytes}

RawHeaders == UNION {RawSeqs(n) : n \in 0..MaxRawLen}

TermEncodingInputs ==
  {<<B(h), B(w)>> :
     h \in AltTexts \cup {a \o "," \o b : a, b \in AltTexts}, w \in ListWanted}
    \cup {<<r, B("a")>> : r \in RawHeaders}

TermMimeInputs ==
  {<<B(h), B(w)>> :
     h \in MimeAltTexts \cup {a \o "," \o b : a, b \in MimeAltTexts},
     w \in MimeListWanted}
    \cup {<<r, B("a/a")>> : r \in RawHeaders}

\* The entry of match_for_encoding on one of the inputs.
CallEncoding ==
  /\ em.pc = "idle"
  /\ mm.pc = "idle"
  /\ \E in \in TermEncodingInputs : em' = EncodingCall(in[1], in[2])
  /\ UNCHANGED <<mm, ord, call>>

\* The entry of match_for_mime_type on one of the inputs.
CallMime ==
  /\ em.pc = "idle"
  /\ mm.pc = "idle"
  /\ \E in \in TermMimeInputs : mm' = MimeCall(in[1], in[2])
  /\ UNCHANGED <<em, ord, call>>

InitTerm ==
  /\ em = EncodingIdle
  /\ mm = MimeIdle
  /\ ord = OrdIdle
  /\ call = CallIdle

NextTerm ==
  \/ CallEncoding
  \/ CallMime
  \/ Next
  \/ NextMime

SpecTerm == InitTerm /\ [][NextTerm]_vars

\* One iteration of either loop returns or moves the cursor forward.
LoopProgress ==
  /\ em.pc = "loop" => (em'.pc # "loop" \/ em'.c > em.c)
  /\ mm.pc = "loop" => (mm'.pc # "loop" \/ mm'.pos > mm.pos)

\* The cursor of a running loop is within the header.
CursorInRange ==
  /\ em.pc = "loop" => em.c <= Len(em.input)
  /\ mm.pc = "loop" => mm.pos <= Len(mm.value)

\* C13: match_for_encoding and match_for_mime_type terminate on every input:
\* every iteration of the loop returns or strictly advances the cursor,
\* which stays within the header, so that the number of iterations is at
\* most the length of the header.
C13_Terminates ==
  /\ [][LoopProgress]_vars
  /\ []CursorInRange

\* A scan that has consumed a whole header of two elements and is about to
\* return.
C13_Witness ==
  /\ em.pc = "loop"
  /\ em.c = Len(em.input)
  /\ Len(em.hist) = 2
  /\ em.state = "SeenParameterValue"

----------------------------------------------------------------------------
(* src/src/finder.rs: q_value over a position.                            *)

\* The two loops `for _ in 0..Q_VALUE_FRAC_MAX_DIGITS` of q_value from
\* position i (0-based) with n rounds left: digits when any_digit, else
\* only b'0'.  millis is a u16.  [i, millis]
RECURSIVE finder_frac_loop(_, _, _, _, _)
finder_frac_loop(input, i, n, millis, any_digit) ==
  IF n = 0 \/ i >= Len(input)
  THEN [i |-> i, millis |-> millis]
  ELSE LET b == input[i + 1]
       IN  IF any_digit /\ DIGIT0 <= b /\ b <= DIGIT9
           THEN finder_frac_loop(input, i + 1, n - 1,
                                 (millis * 10 + (b - DIGIT0)) % 65536, any_digit)
           ELSE IF ~any_digit /\ b = DIGIT0
           THEN finder_frac_loop(input, i + 1, n - 1, (millis * 10) % 65536, any_digit)
           ELSE [i |-> i, millis |-> millis]

\* finder.rs q_value: [ok, c, panic, q], c the position after the call and
\* panic when QValue::from_millis(millis).unwrap() fails.
finder_q_value(input, pos) ==
  IF pos < Len(input) /\ input[pos + 1] \in {DIGIT0, DIGIT1}
  THEN LET millis == IF input[pos + 1] = DIGIT0 THEN 0 ELSE 1
           i == pos + 1
           dot == i < Len(input) /\ input[i + 1] = DOT
           frac_start == IF dot THEN i + 1 ELSE i
           f == IF dot
                THEN finder_frac_loop(input, i + 1, Q_VALUE_FRAC_MAX_DIGITS,
                                      millis, millis = 0)
                ELSE [i |-> i, millis |-> millis]
           scaled == (f.millis * Pow10(Q_VALUE_FRAC_MAX_DIGITS - (f.i - frac_start)))
                       % 65536
           q == from_millis(scaled)
       IN  [ok |-> TRUE, c |-> f.i, panic |-> ~q.ok, q |-> q.millis]
  ELSE [ok |-> FALSE, c |-> pos, panic |-> FALSE, q |-> 0]

----------------------------------------------------------------------------
(* Quality values: the constructors of QValue, the two q_value lexer       *)
(* operations, and the matchers on headers with a q parameter.             *)

\* An upper bound on the length of the arbitrary bytes that follow "q=".
MaxQLen == 5

\* An upper bound on the arguments of from_millis that are tried one by
\* one; the largest values of a u16 are tried besides.
MaxMillisArg == 1200

\* "0", "1", "9", "." and a byte that is not ASCII.
QBytes == {48, 49, 57, 46, 255}

RECURSIVE QSeqs(_)
QSeqs(n) ==
  IF n = 0
  THEN {<<>>}
  ELSE {Append(r, b) : r \in QSeqs(n - 1), b \in QBytes}

QTails == UNION {QSeqs(n) : n \in 0..MaxQLen}

QLiterals ==
  { "1", "1.", "1.0", "1.00", "1.000", "0", "0.", "0.8", "0.82", "0.823",
    "0.1", "0.12", "0.8235", "0.1239", "0.1235", "1.0000", "1.1", "1.001",
    "1.01", "-0", "0.a", "", "2", "00", ".5", "0.5x" }

QHeaders ==
  {B("gzip;q=") \o t : t \in QTails}
    \cup {B(p \o l \o x) : p \in {"gzip;q=", "br;Q=", "*;a=b;q="},
                           l \in QLiterals,
                           x \in {"", ",br;q=0.5", ";a=b", " "}}
    \cup {B(h) : h \in {"gzip,br;q=1.1", "gzip;q=0.5,*;q=0.8235",
                         "gzip;q=0.5;q=1.001", "br;q=1.0000,gzip"}}

MimeQHeaders ==
  {B("text/html;q=" \o l \o x) : l \in QLiterals, x \in {"", ",*/*"}}

\* The inputs of q_value with the cursor they are read from.
QValueInputs ==
  {<<t, 0>> : t \in QTails}
    \cup {<<B(l \o x), 0>> : l \in QLiterals, x \in {"", ",", "5"}}
    \cup {<<B("q=" \o l), 2>> : l \in QLiterals}

\* The strings given to QValue::try_from: a &str holds no byte above 127
\* here.
QStrings ==
  {t \in QTails : \A i \in 1..Len(t) : t[i] < 128} \cup {B(l) : l \in QLiterals}

MillisArgs == 0..MaxMillisArg \cup {32767, 32768, 65534, 65535}

\* One call of one operation: fn names it, input and arg are its arguments,
\* and ok, c, q, panic its outcome.
CallOf(fn, input, arg) ==
  [pc |-> "ready", fn |-> fn, input |-> input, arg |-> arg,
   ok |-> FALSE, c |-> 0, q |-> 0, panic |-> FALSE]

Returned(cl, r) ==
  [cl EXCEPT !.pc = "done", !.ok = r.ok, !.c = r.c, !.q = r.q, !.panic = r.panic]

\* lexer2.rs q_value(input, &mut c)
ApplyQValue ==
  /\ call.pc = "ready"
  /\ call.fn = "lexer2::q_value"
  /\ call' = Returned(call, q_value(call.input, call.arg))
  /\ UNCHANGED <<em, mm, ord>>

\* finder.rs q_value(input, &mut pos)
ApplyFinderQValue ==
  /\ call.pc = "ready"
  /\ call.fn = "finder::q_value"
  /\ call' = Returned(call, finder_q_value(call.input, call.arg))
  /\ UNCHANGED <<em, mm, ord>>

\* QValue::try_from(s)
ApplyTryFromStr ==
  /\ call.pc = "ready"
  /\ call.fn = "QValue::try_from"
  /\ LET r == QValue_try_from_str(call.input)
     IN  call' = Returned(call, [ok |-> r.ok, c |-> 0, q |-> r.millis, panic |-> FALSE])
  /\ UNCHANGED <<em, mm, ord>>

\* QValue::from_millis(millis)
ApplyFromMillis ==
  /\ call.pc = "ready"
  /\ call.fn = "QValue::from_millis"
  /\ LET r == from_millis(call.arg)
     IN  call' = Returned(call, [ok |-> r.ok, c |-> 0, q |-> r.millis, panic |-> FALSE])
  /\ UNCHANGED <<em, mm, ord>>

\* QValue::try_from(v: f64)
ApplyTryFromF64 ==
  /\ call.pc = "ready"
  /\ call.fn = "QValue::try_from_f64"
  /\ LET r == QValue_try_from_f64(call.input)
     IN  call' = Returned(call, [ok |-> r.ok, c |-> 0, q |-> r.millis, panic |-> FALSE])
  /\ UNCHANGED <<em, mm, ord>>

\* The f64 arguments: NaN, the infinities, and the eighths from -2 to 2.
F64Args ==
  {<<1, 0, 0, 1>>, <<1, 1, 0, 1>>, <<2, 0, 1, 1>>, <<2, 1, 1, 1>>}
    \cup {<<0, neg, num, 8>> : neg \in {0, 1}, num \in 0..16}

InitQ ==
  /\ ord = OrdIdle
  /\ \/ /\ \E h \in QHeaders : em = EncodingCall(h, B("gzip"))
        /\ mm = MimeIdle
        /\ call = CallIdle
     \/ /\ em = EncodingIdle
        /\ \E h \in MimeQHeaders : mm = MimeCall(h, B("text/html"))
        /\ call = CallIdle
     \/ /\ em = EncodingIdle
        /\ mm = MimeIdle
        /\ \/ \E in \in QValueInputs :
                \E fn \in {"lexer2::q_value", "finder::q_value"} :
                  call = CallOf(fn, in[1], in[2])
           \/ \E v \in QStrings : call = CallOf("QValue::try_from", v, 0)
           \/ \E millis \in MillisArgs : call = CallOf("QValue::from_millis", <<>>, millis)
           \/ \E v \in F64Args : call = CallOf("QValue::try_from_f64", v, 0)

NextQ ==
  \/ Next
  \/ NextMime
  \/ ApplyQValue
  \/ ApplyFinderQValue
  \/ ApplyTryFromStr
  \/ ApplyFromMillis
  \/ ApplyTryFromF64

SpecQ == InitQ /\ [][NextQ]_vars

\* The values taken for the q parameters of the header so far.
QParamValues(hist) ==
  UNION {{hist[i].params[j].value :
            j \in {k \in 1..Len(hist[i].params) : IsQName(hist[i].params[k].name)}} :
         i \in 1..Len(hist)}

\* C14: match_for_encoding never panics, whatever the bytes of the header:
\* every slice on which q_value succeeds is ASCII, at most 5 bytes long and
\* accepted by QValue::try_from, so that no unwrap fails.
C14_NoPanic ==
  /\ em.pc # "panic"
  /\ em.pc # "idle" =>
       \A s \in QParamValues(em.hist) :
         /\ Len(s) <= 5
         /\ \A i \in 1..Len(s) : s[i] < 128
         /\ QValue_try_from_str(s).ok

\* The q value of a matching alternative has been taken from a header whose
\* next byte is not ASCII.
C14_Witness ==
  /\ em.pc = "loop"
  /\ em.state = "SeenParameterValue"
  /\ em.cur_result.some
  /\ QParamValues(em.hist) # {}
  /\ em.c < Len(em.input)
  /\ em.input[em.c + 1] = 255

----------------------------------------------------------------------------
(* src/src/lib.rs: the crate-root match_for_encoding, QValueFinder::find   *)
(* over the monolithic Lexer.  Its q is a NotNan<f32>, kept here as the    *)
(* fraction [num, den] it was parsed from.                                 *)

NoRange == [some |-> FALSE, start |-> 0, end |-> 0]
SomeRange(start, end) == [some |-> TRUE, start |-> start, end |-> end]

\* Lexer::new
LibLexer == [pos |-> 0, in_quoted_str |-> FALSE, quoted_str_escaped |-> FALSE,
             token_range |-> NoRange]

\* An Option<Token>: kind is "None" or the variant, start..end its bytes.
LibToken(kind, start, end) == [kind |-> kind, start |-> start, end |-> end]

\* Lexer::next_token: [lexer, token], the lexer after the call.
RECURSIVE Lexer_next_token(_, _)
Lexer_next_token(value, lx) ==
  IF lx.pos < Len(value)
  THEN LET c == value[lx.pos + 1]
           step == [lx EXCEPT !.pos = @ + 1]
       IN  IF lx.in_quoted_str
           THEN IF lx.quoted_str_escaped
                THEN Lexer_next_token(value, [step EXCEPT !.quoted_str_escaped = FALSE])
                ELSE IF c = DQUOTE
                THEN [lexer |-> [step EXCEPT !.in_quoted_str = FALSE,
                                             !.token_range = NoRange],
                      token |-> LibToken("DoubleQuotedString",
                                         lx.token_range.start, lx.pos + 1)]
                ELSE IF c = BACKSLASH
                THEN Lexer_next_token(value, [step EXCEPT !.quoted_str_escaped = TRUE])
                ELSE Lexer_next_token(value, step)
           ELSE IF c \in {COMMA, SEMICOLON, EQ_SIGN}
           THEN IF lx.token_range.some
                THEN [lexer |-> [lx EXCEPT !.token_range = NoRange],
                      token |-> LibToken("TokenOrValue",
                                         lx.token_range.start, lx.token_range.end)]
                ELSE [lexer |-> step,
                      token |-> LibToken(IF c = COMMA THEN "Comma"
                                         ELSE IF c = SEMICOLON THEN "Semicolon"
                                         ELSE "Equal",
                                         lx.pos, lx.pos + 1)]
           ELSE IF c \in {SP, TAB}
           THEN Lexer_next_token(value, step)
           ELSE IF c = DQUOTE
           THEN Lexer_next_token(value,
                  [step EXCEPT !.in_quoted_str = TRUE,
                               !.token_range = SomeRange(lx.pos, lx.pos + 1)])
           ELSE Lexer_next_token(value,
                  [step EXCEPT !.token_range =
                     IF @.some THEN [@ EXCEPT !.end = lx.pos + 1]
                     ELSE SomeRange(lx.pos, lx.pos + 1)])
  ELSE IF lx.in_quoted_str
  THEN [lexer |-> lx, token |-> LibToken("None", 0, 0)]
  ELSE IF lx.token_range.some
  THEN [lexer |-> [lx EXCEPT !.token_range = NoRange],
        token |-> LibToken("TokenOrValue", lx.token_range.start, lx.token_range.end)]
  ELSE [lexer |-> lx, token |-> LibToken("None", 0, 0)]

\* str::parse::<f32>, by the grammar of the standard library:
\*   Float  ::= Sign? ( 'inf' | 'infinity' | 'nan' | Number )
\*   Number ::= ( Digit+ | Digit+ '.' Digit* | Digit* '.' Digit+ ) Exp?
\*   Exp    ::= 'e' Sign? Digit+                      (letters in any case)
\* The result is [ok, kind, neg, num, den]: kind "nan", "inf" or "num", and
\* for "num" the value is num / den (negated when neg).
F32Err == [ok |-> FALSE, kind |-> "err", neg |-> FALSE, num |-> 0, den |-> 1]

\* The number of leading digits of s from index i (1-based) on.
RECURSIVE DigitRun(_, _)
DigitRun(s, i) ==
  IF i <= Len(s) /\ DIGIT0 <= s[i] /\ s[i] <= DIGIT9 THEN 1 + DigitRun(s, i + 1) ELSE 0

\* The value of the digits s[i], ..., s[i + n - 1] after the value acc.
RECURSIVE DigitsValue(_, _, _, _)
DigitsValue(s, i, n, acc) ==
  IF n = 0 THEN acc ELSE DigitsValue(s, i + 1, n - 1, 10 * acc + (s[i] - DIGIT0))

IsSign(b) == b = 43 \/ b = 45

parse_f32_number(s, neg) ==
  LET n1 == DigitRun(s, 1)
      dot == n1 < Len(s) /\ s[n1 + 1] = DOT
      f0 == IF dot THEN n1 + 2 ELSE n1 + 1
      n2 == IF dot THEN DigitRun(s, f0) ELSE 0
      e0 == f0 + n2
      exp == e0 <= Len(s) /\ or_0x20(s[e0]) = 101
      eneg == exp /\ e0 < Len(s) /\ s[e0 + 1] = 45
      d0 == IF exp /\ e0 < Len(s) /\ IsSign(s[e0 + 1]) THEN e0 + 2 ELSE e0 + 1
      n3 == IF exp THEN DigitRun(s, d0) ELSE 0
      last == IF exp THEN d0 + n3 - 1 ELSE e0 - 1
      mant == DigitsValue(s, f0, n2, DigitsValue(s, 1, n1, 0))
      e == IF exp THEN DigitsValue(s, d0, n3, 0) ELSE 0
      shift == (IF eneg THEN -e ELSE e) - n2
  IN  IF n1 + n2 = 0 \/ (exp /\ n3 = 0) \/ last # Len(s)
      THEN F32Err
      ELSE [ok |-> TRUE, kind |-> "num", neg |-> neg,
            num |-> IF shift >= 0 THEN mant * Pow10(shift) ELSE mant,
            den |-> IF shift >= 0 THEN 1 ELSE Pow10(-shift)]

parse_f32(bytes) ==
  LET neg == Len(bytes) > 0 /\ bytes[1] = 45
      s == IF Len(bytes) > 0 /\ IsSign(bytes[1]) THEN Tail(bytes) ELSE bytes
  IN  IF bytes_eq_ignore_case(s, B("nan"))
      THEN [ok |-> TRUE, kind |-> "nan", neg |-> neg, num |-> 0, den |-> 1]
      ELSE IF bytes_eq_ignore_case(s, B("inf")) \/ bytes_eq_ignore_case(s, B("infinity"))
      THEN [ok |-> TRUE, kind |-> "inf", neg |-> neg, num |-> 1, den |-> 1]
      ELSE parse_f32_number(s, neg)

\* f.clamp(0.0, 1.0) followed by NotNan::new: [ok, num, den], not ok for NaN.
NotNan_new_clamped(f) ==
  IF f.kind = "nan" THEN [ok |-> FALSE, num |-> 0, den |-> 1]
  ELSE IF f.neg \/ f.num = 0 THEN [ok |-> TRUE, num |-> 0, den |-> 1]
  ELSE IF f.kind = "inf" \/ f.num >= f.den THEN [ok |-> TRUE, num |-> 1, den |-> 1]
  ELSE [ok |-> TRUE, num |-> f.num, den |-> f.den]

\* An Option<MatchResult>: [some, match_type, num, den], q being num / den.
LibNone == [some |-> FALSE, match_type |-> 0, num |-> 0, den |-> 1]
LibSome(match_type, num, den) ==
  [some |-> TRUE, match_type |-> match_type, num |-> num, den |-> den]

\* impl Ord for MatchResult: (match_type, &q).cmp(..), q a NotNan<f32>.
MatchResult_cmp(self, other) ==
  IF cmp_int(self.match_type, other.match_type) # Equal
  THEN cmp_int(self.match_type, other.match_type)
  ELSE cmp_int(self.num * other.den, other.num * self.den)

\* QValueFinder::may_update_best_result: the two slots after the call.
lib_may_update_best_result(cur_result, best_result) ==
  IF cur_result.some /\ (~best_result.some \/ MatchResult_cmp(cur_result, best_result) = Greater)
  THEN [cur_result |-> LibNone, best_result |-> cur_result]
  ELSE [cur_result |-> cur_result, best_result |-> best_result]

\* QValueFinder::new(header_value) followed by the entry of find(encoding).
LibCall(value, encoding) ==
  [fn |-> "lib::match_for_encoding", pc |-> "loop", value |-> value,
   encoding |-> encoding, lexer |-> LibLexer, state |-> "SearchingEncoding",
   cur_result |-> LibNone, best_result |-> LibNone, is_q_param |-> FALSE,
   result |-> LibNone]

lib_return_none(m) == [m EXCEPT !.pc = "abort", !.result = LibNone]

\* NotNan::new(..).unwrap() on a NaN.
lib_panic(m) == [m EXCEPT !.pc = "panic", !.result = LibNone]

\* The arms of find: m is the finder after next_token returned the token t
\* of bytes tok.
LibSearchingEncoding_arm(m, t, tok) ==
  IF t.kind = "TokenOrValue"
  THEN [m EXCEPT !.cur_result =
                    IF \/ bytes_eq_ignore_case(tok, m.encoding)
                       \/ /\ bytes_eq_ignore_case(m.encoding, GZIP)
                          /\ bytes_eq_ignore_case(tok, X_GZIP)
                       \/ /\ bytes_eq_ignore_case(m.encoding, COMPRESS)
                          /\ bytes_eq_ignore_case(tok, X_COMPRESS)
                    THEN LibSome(Exact, 1, 1)
                    ELSE IF tok = STAR_TOKEN
                    THEN LibSome(Wildcard, 1, 1)
                    ELSE LibNone,
                 !.state = "SeenSomeEncoding"]
  ELSE lib_return_none(m)

LibSeenSomeEncoding_arm(m, t, tok) ==
  IF t.kind = "Semicolon"
  THEN [m EXCEPT !.state = "SeenSemicolon"]
  ELSE IF t.kind = "Comma"
  THEN LET u == lib_may_update_best_result(m.cur_result, m.best_result)
       IN  [m EXCEPT !.cur_result = u.cur_result,
                     !.best_result = u.best_result,
                     !.state = "SearchingEncoding"]
  ELSE lib_return_none(m)

LibSeenSemicolon_arm(m, t, tok) ==
  IF t.kind = "TokenOrValue"
  THEN [m EXCEPT !.is_q_param = (tok = Q_NAME), !.state = "SeenParameterName"]
  ELSE lib_return_none(m)

LibSeenParameterName_arm(m, t, tok) ==
  IF t.kind = "Equal"
  THEN [m EXCEPT !.state = "SeenEqual"]
  ELSE lib_return_none(m)

LibSeenEqual_arm(m, t, tok) ==
  IF m.cur_result.some /\ m.is_q_param
  THEN IF t.kind # "TokenOrValue" \/ ~from_utf8_ok(tok) \/ ~parse_f32(tok).ok
       THEN lib_return_none(m)
       ELSE LET q == NotNan_new_clamped(parse_f32(tok))
            IN  IF ~q.ok
                THEN lib_panic(m)
                ELSE [m EXCEPT !.cur_result.num = q.num,
                               !.cur_result.den = q.den,
                               !.state = "SeenParameterValue"]
  ELSE [m EXCEPT !.state = "SeenParameterValue"]

LibSeenParameterValue_arm(m, t, tok) ==
  IF t.kind = "Comma"
  THEN LET u == lib_may_update_best_result(m.cur_result, m.best_result)
       IN  [m EXCEPT !.cur_result = u.cur_result,
                     !.best_result = u.best_result,
                     !.state = "SearchingEncoding"]
  ELSE IF t.kind = "Semicolon"
  THEN [m EXCEPT !.state = "SeenSemicolon"]
  ELSE lib_return_none(m)

\* After the loop: may_update_best_result, then best_result.take().
lib_finish(m) ==
  LET u == lib_may_update_best_result(m.cur_result, m.best_result)
  IN  [m EXCEPT !.cur_result = u.cur_result,
                !.best_result = LibNone,
                !.result = u.best_result,
                !.pc = "done"]

\* The values of a q parameter the calls are made with: float literals of
\* str::parse::<f32>, and tokens that are no float.
F32Tokens ==
  {"1", "0", "0.5", "0.25", ".5", "5.", "1.5", "-1", "+0.5", "1e3", "5e-1",
   "2E0", "inf", "-inf", "Infinity", "NaN", "nan", "-nan", "abc", "1e", ".",
   "0.5x", "\"1\"", ","}

LibPrefixes == {"gzip;q=", "x-gzip;q=", "*;q=", "br;q=", "gzip;Q=", "gzip;a=", "gzip;q"}
LibSuffixes == {"", ",*;q=0.5", ";q=0.75", " , gzip;q=0.125", ";"}
LibHeaders ==
  {B(p) \o B(t) \o B(x) : p \in LibPrefixes, t \in F32Tokens, x \in LibSuffixes}
    \cup {B(h) : h \in {"", "gzip", "gzip,", "*", "br", ",", "\"gzip\"",
                         "gzip;q=\"a\\\"b\"", "gzip q=1", "GZIP ; q = 0.5"}}
LibWanted == {B("gzip")}

\* One iteration of the while-let loop of find: next_token, then the arm of
\* the current state.
LibNext == Lexer_next_token(call.value, call.lexer)
LibAfter == [call EXCEPT !.lexer = LibNext.lexer]
LibTok == slice(call.value, LibNext.token.start, LibNext.token.end)

LibInLoop(st) ==
  /\ call.pc = "loop"
  /\ call.fn = "lib::match_for_encoding"
  /\ call.state = st
  /\ LibNext.token.kind # "None"

StepLibSearchingEncoding ==
  /\ LibInLoop("SearchingEncoding")
  /\ call' = LibSearchingEncoding_arm(LibAfter, LibNext.token, LibTok)
  /\ UNCHANGED <<em, mm, ord>>

StepLibSeenSomeEncoding ==
  /\ LibInLoop("SeenSomeEncoding")
  /\ call' = LibSeenSomeEncoding_arm(LibAfter, LibNext.token, LibTok)
  /\ UNCHANGED <<em, mm, ord>>

StepLibSeenSemicolon ==
  /\ LibInLoop("SeenSemicolon")
  /\ call' = LibSeenSemicolon_arm(LibAfter, LibNext.token, LibTok)
  /\ UNCHANGED <<em, mm, ord>>

StepLibSeenParameterName ==
  /\ LibInLoop("SeenParameterName")
  /\ call' = LibSeenParameterName_arm(LibAfter, LibNext.token, LibTok)
  /\ UNCHANGED <<em, mm, ord>>

StepLibSeenEqual ==
  /\ LibInLoop("SeenEqual")
  /\ call' = LibSeenEqual_arm(LibAfter, LibNext.token, LibTok)
  /\ UNCHANGED <<em, mm, ord>>

StepLibSeenParameterValue ==
  /\ LibInLoop("SeenParameterValue")
  /\ call' = LibSeenParameterValue_arm(LibAfter, LibNext.token, LibTok)
  /\ UNCHANGED <<em, mm, ord>>

\* next_token returned None: the loop ends.
LibFinish ==
  /\ call.pc = "loop"
  /\ call.fn = "lib::match_for_encoding"
  /\ LibNext.token.kind = "None"
  /\ call' = lib_finish(LibAfter)
  /\ UNCHANGED <<em, mm, ord>>

InitLib ==
  /\ em = EncodingIdle
  /\ mm = MimeIdle
  /\ ord = OrdIdle
  /\ \E h \in LibHeaders, e \in LibWanted : call = LibCall(h, e)

NextLib ==
  \/ StepLibSearchingEncoding
  \/ StepLibSeenSomeEncoding
  \/ StepLibSeenSemicolon
  \/ StepLibSeenParameterName
  \/ StepLibSeenEqual
  \/ StepLibSeenParameterValue
  \/ LibFinish

SpecLib == InitLib /\ [][NextLib]_vars

\* C15: the crate-root match_for_encoding never panics: no call ends in the
\* unwrap of NotNan::new on a NaN, whatever token the q parameter carries.
C15_NoPanic ==
  call.pc # "panic"

\* A q value that parses as an f32 was clamped and stored.
C15_ClampedStored ==
  /\ call.pc = "done"
  /\ call.result.some
  /\ 2 * call.result.num = call.result.den

----------------------------------------------------------------------------
(* Quality values: the literals of a q parameter and the grammar           *)
(* ("0" ["." 0*3DIGIT]) | ("1" ["." 0*3("0")]).                            *)

\* The thousandths of the literals 1, 1., 1.0, 1.00, 1.000, 0, 0., 0.d,
\* 0.dd and 0.ddd, read as decimal numbers; -1 for any other bytes.
RefLiteral(t) ==
  IF t \in {B("1"), B("1."), B("1.0"), B("1.00"), B("1.000")}
  THEN 1000
  ELSE IF t \in {B("0"), B("0.")}
  THEN 0
  ELSE IF /\ Len(t) \in 3..5
          /\ SubSeq(t, 1, 2) = B("0.")
          /\ \A i \in 3..Len(t) : t[i] \in 48..57
  THEN (IF Len(t) >= 3 THEN (t[3] - 48) * 100 ELSE 0)
         + (IF Len(t) >= 4 THEN (t[4] - 48) * 10 ELSE 0)
         + (IF Len(t) >= 5 THEN (t[5] - 48) ELSE 0)
  ELSE -1

\* What precedes and follows the literal in a header whose matching
\* alternative carries q=<lit>, with the kind of the match.
LitPrefixes == {<<B("gzip;q="), Exact>>, <<B("*;a=b;q="), Wildcard>>}
LitSuffixes == {B(""), B(",br;q=0.5"), B(";a=b")}

\* The bytes of input between a prefix p and a suffix x, <<255>> when the
\* input is not p, some bytes, x.
Between(input, p, x) ==
  IF /\ Len(input) >= Len(p) + Len(x)
     /\ SubSeq(input, 1, Len(p)) = p
     /\ SubSeq(input, Len(input) - Len(x) + 1, Len(input)) = x
  THEN SubSeq(input, Len(p) + 1, Len(input) - Len(x))
  ELSE <<255>>

\* C16: a header whose matching alternative carries q=<lit> gives quality
\* 1000 for 1, 1., 1.0, 1.00, 1.000, quality 0 for 0 and 0., and for 0.d,
\* 0.dd, 0.ddd the digits scaled to thousandths.
C16_Literals ==
  \A p \in LitPrefixes, x \in LitSuffixes :
    LET t == Between(em.input, p[1], x)
    IN  (em.pc \in {"done", "abort", "panic"} /\ RefLiteral(t) >= 0) =>
          /\ em.pc = "done"
          /\ em.result = Match(p[2], RefLiteral(t))

\* The call on gzip;q=0.82 has returned.
C16_Witness ==
  /\ em.pc = "done"
  /\ em.input = B("gzip;q=0.82")
  /\ em.result = Match(Exact, 820)

\* The number of digits of input from index j on.
RECURSIVE RefDigitCount(_, _)
RefDigitCount(input, j) ==
  IF j <= Len(input) /\ input[j] \in 48..57
  THEN 1 + RefDigitCount(input, j + 1)
  ELSE 0

\* A q parameter (";q=" or ";Q=") whose value begins at index i.
RefQValueAt(input, i) ==
  /\ i >= 4
  /\ i <= Len(input)
  /\ input[i - 3] = 59
  /\ input[i - 2] \in {113, 81}
  /\ input[i - 1] = 61

\* The value at index i has more than three fractional digits, or a
\* non-zero digit after "1.".
RefBadQAt(input, i) ==
  /\ i + 1 <= Len(input)
  /\ input[i] \in {48, 49}
  /\ input[i + 1] = 46
  /\ LET n == RefDigitCount(input, i + 2)
     IN  \/ n > 3
         \/ /\ input[i] = 49
            /\ \E k \in 0..(n - 1) : input[i + 2 + k] # 48

RefHasBadQ(input) ==
  /\ \A i \in 1..Len(input) : input[i] # 34
  /\ \E i \in 1..Len(input) : RefQValueAt(input, i) /\ RefBadQAt(input, i)

\* C17: a header in which some q parameter value has more than three
\* fractional digits, or a non-zero digit after "1.", gives no match for
\* the whole header.
C17_BadQRejected ==
  (em.pc \in {"done", "abort", "panic"} /\ RefHasBadQ(em.input)) =>
    /\ em.pc = "abort"
    /\ ~em.result.some

\* A header whose first alternative matches with a valid q value and whose
\* second alternative has a q value of four fractional digits was rejected.
C17_Witness ==
  /\ em.pc = "abort"
  /\ em.input = B("gzip;q=0.5,*;q=0.8235")
  /\ em.best_result = Match(Exact, 500)
  /\ ~em.result.some

\* The number of bytes '0' of input from index j on.
RECURSIVE RefZeroCount(_, _)
RefZeroCount(input, j) ==
  IF j <= Len(input) /\ input[j] = 48
  THEN 1 + RefZeroCount(input, j + 1)
  ELSE 0

RefMin(a, b) == IF a < b THEN a ELSE b

\* The length of the longest prefix of input after the cursor c that
\* matches ("0" ["." 0*3DIGIT]) | ("1" ["." 0*3("0")]); -1 when none does.
RefPrefixLen(input, c) ==
  IF c >= Len(input) \/ input[c + 1] \notin {48, 49}
  THEN -1
  ELSE IF c + 2 > Len(input) \/ input[c + 2] # 46
  THEN 1
  ELSE IF input[c + 1] = 48
  THEN 2 + RefMin(3, RefDigitCount(input, c + 3))
  ELSE 2 + RefMin(3, RefZeroCount(input, c + 3))

QValueFns == {"lexer2::q_value", "finder::q_value"}

\* C18: q_value consumes the longest prefix at the cursor that matches the
\* grammar and returns its value in thousandths, a fourth fractional digit
\* left unconsumed and the value truncated; it fails only when the byte at
\* the cursor is neither '0' nor '1' or the input is exhausted.
C18_LongestPrefix ==
  (call.pc = "done" /\ call.fn \in QValueFns) =>
    LET n == RefPrefixLen(call.input, call.arg)
    IN  IF n < 0
        THEN ~call.ok
        ELSE /\ call.ok
             /\ ~call.panic
             /\ call.c = call.arg + n
             /\ call.q = RefLiteral(SubSeq(call.input, call.arg + 1, call.arg + n))

\* q_value has returned 823 on 0.8235 with the cursor after five bytes.
C18_Witness ==
  /\ call.pc = "done"
  /\ call.fn = "lexer2::q_value"
  /\ call.input = B("0.8235")
  /\ call.arg = 0
  /\ call.ok
  /\ call.c = 5
  /\ call.q = 823

\* The q of an Option of a match is within 0..1000.
QInRange(r) == r.q \in 0..1000

\* C19: every QValue holds between 0 and 1000 thousandths: from_millis is
\* Ok exactly for the arguments 0..1000, try_from(&str) yields 0..999 after
\* a '0' and 1000 after a '1', try_from(f64) and q_value yield at most
\* 1000, and no step of the matchers stores a value above 1000.
C19_Range ==
  /\ (call.pc = "done" /\ call.fn = "QValue::from_millis") =>
       /\ call.ok <=> call.arg <= 1000
       /\ call.ok => call.q = call.arg
  /\ (call.pc = "done" /\ call.fn = "QValue::try_from" /\ call.ok) =>
       \/ call.input[1] = 48 /\ call.q \in 0..999
       \/ call.input[1] = 49 /\ call.q = 1000
  /\ (call.pc = "done" /\ call.fn = "QValue::try_from_f64" /\ call.ok) =>
       call.q \in 0..1000
  /\ (call.pc = "done" /\ call.fn \in QValueFns /\ call.ok) =>
       call.q \in 0..1000
  /\ em.pc # "idle" =>
       /\ QInRange(em.cur_result)
       /\ QInRange(em.best_result)
       /\ QInRange(em.result)
  /\ mm.pc # "idle" =>
       /\ QInRange(mm.cur_result)
       /\ QInRange(mm.best_result)
       /\ QInRange(mm.result)

\* from_millis has refused 1001.
C19_Witness ==
  /\ call.pc = "done"
  /\ call.fn = "QValue::from_millis"
  /\ call.arg = 1001
  /\ ~call.ok

\* The whole string v matches ("0" ["." 0*3DIGIT]) | ("1" ["." 0*3("0")]).
RefGrammar(v) ==
  /\ Len(v) \in 1..5
  /\ v[1] \in {48, 49}
  /\ Len(v) >= 2 => v[2] = 46
  /\ \A i \in 3..Len(v) : IF v[1] = 48 THEN v[i] \in 48..57 ELSE v[i] = 48

\* C20: QValue::try_from(&str) accepts a string iff the whole string
\* matches the grammar, and then returns its value in thousandths, missing
\* fractional digits counting as zeros; every other string is an error.
C20_WholeString ==
  (call.pc = "done" /\ call.fn = "QValue::try_from") =>
    /\ call.ok <=> RefGrammar(call.input)
    /\ call.ok => call.q = RefLiteral(call.input)

\* try_from has returned 120 on 0.12.
C20_Witness ==
  /\ call.pc = "done"
  /\ call.fn = "QValue::try_from"
  /\ call.input = B("0.12")
  /\ call.ok
  /\ call.q = 120

----------------------------------------------------------------------------
(* The wanted media type, the C boundary and the helpers.                  *)

\* The number of bytes '/' of a media type.
RefSlashCount(mime_type) == Cardinality({i \in 1..Len(mime_type) : mime_type[i] = 47})

\* C21: match_for_mime_type returns no match immediately, for every header,
\* whenever the wanted media type does not split into exactly two parts on
\* '/': when it holds no '/' and when it holds more than one.
C21_SplitExactlyTwo ==
  (mm.pc \in {"done", "abort"} /\ RefSlashCount(mm.mime_type) # 1) =>
    /\ mm.pc = "abort"
    /\ mm.pos = 0
    /\ ~mm.result.some

\* A wanted media type without '/' has returned no match against */*.
C21_NoSlashRejected ==
  /\ mm.pc = "abort"
  /\ mm.value = B("*/*")
  /\ mm.mime_type = B("text")
  /\ mm.pos = 0
  /\ ~mm.result.some

----------------------------------------------------------------------------
(* src/src/c.rs and the C functions of src/src/lib.rs.  A C result is       *)
(* [match_type, q]; its q is a float [nan, v]: a NaN, or v thousandths.    *)

C_ENCODING_MATCH_TYPE_NO_MATCH == 0
C_ENCODING_MATCH_TYPE_WILDCARD == 1
C_ENCODING_MATCH_TYPE_EXACT == 2

C_MIME_TYPE_MATCH_TYPE_NO_MATCH == 0
C_MIME_TYPE_MATCH_TYPE_MAIN_TYPE_WILDCARD == 1
C_MIME_TYPE_MATCH_TYPE_SUB_TYPE_WILDCARD == 2
C_MIME_TYPE_MATCH_TYPE_EXACT == 3

RUST_MATCH_TYPE_NO_MATCH == 0

Float(v) == [nan |-> FALSE, v |-> v]
NaN == [nan |-> TRUE, v |-> 0]

\* The operators < and > of f64 and f32: false when an operand is a NaN.
float_lt(x, y) == ~x.nan /\ ~y.nan /\ x.v < y.v
float_gt(x, y) == ~x.nan /\ ~y.nan /\ x.v > y.v

CMatch(match_type, q) == [match_type |-> match_type, q |-> q]

\* The match of c_match_encoding on the Option returned by
\* match_for_encoding; r.q.into() is millis / 1000.
c_match_encoding(r) ==
  IF r.some
  THEN CMatch(IF r.match_type = Wildcard
              THEN C_ENCODING_MATCH_TYPE_WILDCARD
              ELSE C_ENCODING_MATCH_TYPE_EXACT,
              Float(r.q))
  ELSE CMatch(C_ENCODING_MATCH_TYPE_NO_MATCH, Float(0))

\* c_cmp_encoding_match comparing q also for two no-match values.
c_cmp_encoding_match_always_q(m1, m2) ==
  IF m1.match_type < m2.match_type THEN -1
  ELSE IF m1.match_type > m2.match_type THEN 1
  ELSE IF float_lt(m1.q, m2.q) THEN -1
  ELSE IF float_gt(m1.q, m2.q) THEN 1
  ELSE 0

c_cmp_encoding_match(m1, m2) ==
  IF m1.match_type < m2.match_type THEN -1
  ELSE IF m1.match_type > m2.match_type THEN 1
  ELSE IF m1.match_type # C_ENCODING_MATCH_TYPE_NO_MATCH
  THEN IF float_lt(m1.q, m2.q) THEN -1
       ELSE IF float_gt(m1.q, m2.q) THEN 1
       ELSE 0
  ELSE 0

\* The match of c_match_mime_type on the Option returned by
\* match_for_mime_type.
c_match_mime_type(r) ==
  IF r.some
  THEN CMatch(IF r.match_type = MainTypeWildcard
              THEN C_MIME_TYPE_MATCH_TYPE_MAIN_TYPE_WILDCARD
              ELSE IF r.match_type = SubTypeWildcard
              THEN C_MIME_TYPE_MATCH_TYPE_SUB_TYPE_WILDCARD
              ELSE C_MIME_TYPE_MATCH_TYPE_EXACT,
              Float(r.q))
  ELSE CMatch(C_MIME_TYPE_MATCH_TYPE_NO_MATCH, Float(0))

c_cmp_mime_type_match(m1, m2) ==
  IF m1.match_type < m2.match_type THEN -1
  ELSE IF m1.match_type > m2.match_type THEN 1
  ELSE IF m1.match_type # C_MIME_TYPE_MATCH_TYPE_NO_MATCH
  THEN IF float_lt(m1.q, m2.q) THEN -1
       ELSE IF float_gt(m1.q, m2.q) THEN 1
       ELSE 0
  ELSE 0

\* ae_is_better_match_than comparing q also for two no-match values.
ae_is_better_match_than_always_q(res1, res2) ==
  IF \/ res1.match_type > res2.match_type
     \/ /\ res1.match_type = res2.match_type
        /\ float_gt(res1.q, res2.q)
  THEN 1
  ELSE 0

\* lib.rs ae_is_better_match_than
ae_is_better_match_than(res1, res2) ==
  IF \/ res1.match_type > res2.match_type
     \/ /\ res1.match_type = res2.match_type
        /\ res1.match_type # RUST_MATCH_TYPE_NO_MATCH
        /\ float_gt(res1.q, res2.q)
  THEN 1
  ELSE 0

\* The Options the matchers return, and the C values a caller can pass.
CQs == {Float(0), Float(1), Float(500), Float(1000), NaN}
EncodingOptions == {NoMatch} \cup {Match(m.match_type, m.q) : m \in EncodingMatches}
MimeOptions == {NoMatch} \cup {Match(m.match_type, m.q) : m \in MimeTypeMatches}
CEncodingMatches == {CMatch(k, q) : k \in 0..2, q \in CQs}
CMimeTypeMatches == {CMatch(k, q) : k \in 0..3, q \in CQs}

\* Two results at the C boundary: a and b are the Options of the matcher
\* (when the C values come from c_match_*), m1 and m2 the C values, r12 and
\* r21 what the C function returned for (m1, m2) and for (m2, m1).
CCall(fn, pc, a, b, m1, m2) ==
  [fn |-> fn, pc |-> pc, a |-> a, b |-> b, m1 |-> m1, m2 |-> m2, r12 |-> 0, r21 |-> 0]

CMatchEncoding ==
  /\ ord.pc = "ready"
  /\ ord.fn = "c_match_encoding"
  /\ ord' = [ord EXCEPT !.pc = "matched",
                        !.m1 = c_match_encoding(ord.a),
                        !.m2 = c_match_encoding(ord.b)]
  /\ UNCHANGED <<em, mm, call>>

CCmpEncoding ==
  /\ ord.pc = "matched"
  /\ ord.fn \in {"c_match_encoding", "c_cmp_encoding_match"}
  /\ ord' = [ord EXCEPT !.pc = "done",
                        !.r12 = c_cmp_encoding_match(ord.m1, ord.m2),
                        !.r21 = c_cmp_encoding_match(ord.m2, ord.m1)]
  /\ UNCHANGED <<em, mm, call>>

CMatchMime ==
  /\ ord.pc = "ready"
  /\ ord.fn = "c_match_mime_type"
  /\ ord' = [ord EXCEPT !.pc = "matched",
                        !.m1 = c_match_mime_type(ord.a),
                        !.m2 = c_match_mime_type(ord.b)]
  /\ UNCHANGED <<em, mm, call>>

CCmpMime ==
  /\ ord.pc = "matched"
  /\ ord.fn \in {"c_match_mime_type", "c_cmp_mime_type_match"}
  /\ ord' = [ord EXCEPT !.pc = "done",
                        !.r12 = c_cmp_mime_type_match(ord.m1, ord.m2),
                        !.r21 = c_cmp_mime_type_match(ord.m2, ord.m1)]
  /\ UNCHANGED <<em, mm, call>>

IsBetter ==
  /\ ord.pc = "matched"
  /\ ord.fn = "ae_is_better_match_than"
  /\ ord' = [ord EXCEPT !.pc = "done",
                        !.r12 = ae_is_better_match_than(ord.m1, ord.m2),
                        !.r21 = ae_is_better_match_than(ord.m2, ord.m1)]
  /\ UNCHANGED <<em, mm, call>>

InitC ==
  /\ em = EncodingIdle
  /\ mm = MimeIdle
  /\ call = CallIdle
  /\ \/ \E a, b \in EncodingOptions :
          ord = CCall("c_match_encoding", "ready", a, b,
                      CMatch(0, Float(0)), CMatch(0, Float(0)))
     \/ \E a, b \in MimeOptions :
          ord = CCall("c_match_mime_type", "ready", a, b,
                      CMatch(0, Float(0)), CMatch(0, Float(0)))
     \/ \E m1, m2 \in CEncodingMatches :
          \E fn \in {"c_cmp_encoding_match", "ae_is_better_match_than"} :
            ord = CCall(fn, "matched", NoMatch, NoMatch, m1, m2)
     \/ \E m1, m2 \in CMimeTypeMatches :
          ord = CCall("c_cmp_mime_type_match", "matched", NoMatch, NoMatch, m1, m2)

NextC ==
  \/ CMatchEncoding
  \/ CCmpEncoding
  \/ CMatchMime
  \/ CCmpMime
  \/ IsBetter

SpecC == InitC /\ [][NextC]_vars

\* The rank of a C value: no match below every match whatever its q, then
\* the kind, then q; defined for a q that is no NaN.
RefCRank(m) == IF m.match_type = 0 THEN -1 ELSE 1001 * m.match_type + m.q.v

RefSign(x, y) == IF x < y THEN -1 ELSE IF x > y THEN 1 ELSE 0

\* C22: ae_is_better_match_than(r1, r2) is 1 exactly when r1 is strictly
\* greater than r2 in the order that puts no match below every match and
\* orders matches by (kind, quality): 0 for two no-match values whatever
\* their q, 0 for equal values, never 1 in both directions, and 1 for a
\* match against no match.
C22_IsBetter ==
  (ord.pc = "done" /\ ord.fn = "ae_is_better_match_than") =>
    /\ ord.r12 \in {0, 1}
    /\ ~(ord.r12 = 1 /\ ord.r21 = 1)
    /\ (ord.m1.match_type = 0 /\ ord.m2.match_type = 0) => ord.r12 = 0
    /\ ord.m1 = ord.m2 => ord.r12 = 0
    /\ (ord.m1.match_type # 0 /\ ord.m2.match_type = 0) => ord.r12 = 1
    /\ (\/ ord.m1.match_type = 0 /\ ord.m2.match_type = 0
        \/ ~ord.m1.q.nan /\ ~ord.m2.q.nan) =>
         (ord.r12 = 1 <=> RefCRank(ord.m1) > RefCRank(ord.m2))

\* Exact q=0.5 against Exact q=1: not better, and better the other way.
C22_Witness ==
  /\ ord.pc = "done"
  /\ ord.fn = "ae_is_better_match_than"
  /\ ord.m1 = CMatch(2, Float(500))
  /\ ord.m2 = CMatch(2, Float(1000))
  /\ ord.r12 = 0
  /\ ord.r21 = 1

\* The C value of an Option of a match: no match is kind 0 with q 0, a
\* match its kind counted from 1, weakest first, with its q.
RefCValue(r) ==
  IF r.some THEN CMatch(r.match_type + 1, Float(r.q)) ELSE CMatch(0, Float(0))

CMatchFns == {"c_match_encoding", "c_match_mime_type"}
CCmpFns == {"c_cmp_encoding_match", "c_cmp_mime_type_match"}

\* C23: the C boundary preserves the ranking: c_match_* gives kind 0 with
\* q 0 for no match and the kinds as 1, 2 (, 3) from weakest to strongest;
\* c_cmp_* returns -1, 0 or 1 as the lexicographic comparison of
\* (match_type, q), two no-match values comparing 0 whatever their q; so
\* c_cmp of two marshalled results is the sign of comparing them as
\* Options, and c_cmp(x, y) = -c_cmp(y, x).
C23_CBoundary ==
  /\ (ord.fn \in CMatchFns /\ ord.pc \in {"matched", "done"}) =>
       /\ ord.m1 = RefCValue(ord.a)
       /\ ord.m2 = RefCValue(ord.b)
  /\ (ord.fn \in CMatchFns /\ ord.pc = "done") =>
       /\ ord.r12 = RefSign(RefRank(ord.a), RefRank(ord.b))
       /\ ord.r21 = -ord.r12
  /\ (ord.fn \in CCmpFns /\ ord.pc = "done") =>
       /\ ord.r12 \in {-1, 0, 1}
       /\ ord.r21 = -ord.r12
       /\ (ord.m1.match_type = 0 /\ ord.m2.match_type = 0) => ord.r12 = 0
       /\ (~ord.m1.q.nan /\ ~ord.m2.q.nan) =>
            ord.r12 = RefSign(RefCRank(ord.m1), RefCRank(ord.m2))

\* No match against Wildcard q=0, as returned by the matcher: -1.
C23_Witness ==
  /\ ord.pc = "done"
  /\ ord.fn = "c_match_encoding"
  /\ ~ord.a.some
  /\ ord.b = Match(Wildcard, 0)
  /\ ord.m1 = CMatch(0, Float(0))
  /\ ord.m2 = CMatch(1, Float(0))
  /\ ord.r12 = -1
  /\ ord.r21 = 1

----------------------------------------------------------------------------
(* Calls one after another: each call of a matcher builds its state anew,  *)
(* and what it returned is kept in a log of (function, header, wanted,     *)
(* result).                                                                *)

\* An upper bound on the number of calls of one run.
MaxCalls == 3

CallsEncodingInputs ==
  {<<B(h), B(w)>> : h \in {"gzip;q=0.5, *;q=0.1", "br", "*, gzip;q=0"}, w \in {"gzip"}}
    \cup {<<B("gzip;q=0.5,"), B("x-gzip")>>, <<B("br;q=1.1"), B("br")>>}

CallsMimeInputs ==
  {<<B(h), B("text/html")>> : h \in {"text/*;q=0.5,*/*", "image/png", "text/html;q=0"}}
    \cup {<<B("*/*"), B("text")>>}

CallsLog(n, seen) == [pc |-> "log", fn |-> "calls", n |-> n, seen |-> seen]

NoCallRunning == em.pc \in {"idle", "returned"} /\ mm.pc \in {"idle", "returned"}

\* EnterEncoding with best_result left as the previous call returned it.
EnterEncoding_stale_best ==
  /\ NoCallRunning
  /\ call.n < MaxCalls
  /\ \E in \in CallsEncodingInputs :
       em' = [EncodingCall(in[1], in[2]) EXCEPT
                !.best_result = IF em.pc = "returned" THEN em.result ELSE NoMatch]
  /\ call' = [call EXCEPT !.n = @ + 1]
  /\ UNCHANGED <<mm, ord>>

\* match_for_encoding is entered: its locals are built from the arguments.
EnterEncoding ==
  /\ NoCallRunning
  /\ call.n < MaxCalls
  /\ \E in \in CallsEncodingInputs : em' = EncodingCall(in[1], in[2])
  /\ call' = [call EXCEPT !.n = @ + 1]
  /\ UNCHANGED <<mm, ord>>

\* match_for_encoding returns: the caller has the result.
ReturnEncoding ==
  /\ em.pc \in {"done", "abort"}
  /\ em' = [em EXCEPT !.pc = "returned"]
  /\ call' = [call EXCEPT !.seen = @ \cup {<<"match_for_encoding", em.input,
                                            em.encoding, em.result>>}]
  /\ UNCHANGED <<mm, ord>>

\* match_for_mime_type is entered: MimeTypeMatcher::new(value).
EnterMime ==
  /\ NoCallRunning
  /\ call.n < MaxCalls
  /\ \E in \in CallsMimeInputs : mm' = MimeCall(in[1], in[2])
  /\ call' = [call EXCEPT !.n = @ + 1]
  /\ UNCHANGED <<em, ord>>

ReturnMime ==
  /\ mm.pc \in {"done", "abort"}
  /\ mm' = [mm EXCEPT !.pc = "returned"]
  /\ call' = [call EXCEPT !.seen = @ \cup {<<"match_for_mime_type", mm.value,
                                            mm.mime_type, mm.result>>}]
  /\ UNCHANGED <<em, ord>>

InitCalls ==
  /\ em = EncodingIdle
  /\ mm = MimeIdle
  /\ ord = OrdIdle
  /\ call = CallsLog(0, {})

NextCalls ==
  \/ EnterEncoding
  \/ ReturnEncoding
  \/ EnterMime
  \/ ReturnMime
  \/ Next
  \/ NextMime

SpecCalls == InitCalls /\ [][NextCalls]_vars

\* Two returned calls of one function with the same header and the same
\* wanted value gave the same result.
SameInputsSameResult ==
  \A x, y \in call.seen :
    (x[1] = y[1] /\ x[2] = y[2] /\ x[3] = y[3]) => x[4] = y[4]

\* A call that begins has the cursor at 0, both result slots empty and the
\* first state, whatever the calls before it left.
FreshStart ==
  /\ (em.pc # "loop" /\ em'.pc = "loop") =>
       /\ em'.c = 0
       /\ em'.state = "SearchingEncoding"
       /\ ~em'.cur_result.some
       /\ ~em'.best_result.some
  /\ (mm.pc \notin {"loop", "abort"} /\ mm'.pc \in {"loop", "abort"}) =>
       /\ mm'.pos = 0
       /\ mm'.state = "SearchingMainType"
       /\ ~mm'.cur_result.some
       /\ ~mm'.best_result.some

----------------------------------------------------------------------------
(* bytes_eq_ignore_case on every pair of bytes and on pairs of strings.    *)

BytesEqStrings ==
  {"", "gzip", "GZip", "GZIP", "zip", "gzi2", "bzip2", "bziP2", "gzip2", "@", "a@",
   "[x", "{X", "2", "p", "az", "AZ"}

BytesEqInputs ==
  {<<<<a>>, <<b>>>> : a \in Byte, b \in Byte}
    \cup {<<B(x), B(y)>> : x \in BytesEqStrings, y \in BytesEqStrings}
    \cup {<<B("a@"), <<65, 96>>>>, <<<<193, 65>>, <<225, 97>>>>}

\* One call with its arguments both ways round and with the first argument
\* twice.
BytesEqCall(bytes1, bytes2) ==
  [pc |-> "ready", fn |-> "bytes_eq_ignore_case", bytes1 |-> bytes1,
   bytes2 |-> bytes2, r12 |-> FALSE, r21 |-> FALSE, r11 |-> FALSE]

ApplyBytesEq ==
  /\ call.pc = "ready"
  /\ call.fn = "bytes_eq_ignore_case"
  /\ call' = [call EXCEPT !.pc = "done",
                          !.r12 = bytes_eq_ignore_case(call.bytes1, call.bytes2),
                          !.r21 = bytes_eq_ignore_case(call.bytes2, call.bytes1),
                          !.r11 = bytes_eq_ignore_case(call.bytes1, call.bytes1)]
  /\ UNCHANGED <<em, mm, ord>>

InitBytes ==
  /\ em = EncodingIdle
  /\ mm = MimeIdle
  /\ ord = OrdIdle
  /\ \E in \in BytesEqInputs : call = BytesEqCall(in[1], in[2])

NextBytes == ApplyBytesEq

SpecBytes == InitBytes /\ [][NextBytes]_vars

\* A byte with the ASCII letters A-Z folded to a-z, by the letters.
RefFold(b) ==
  LET upper == B("ABCDEFGHIJKLMNOPQRSTUVWXYZ")
      lower == B("abcdefghijklmnopqrstuvwxyz")
      at == {i \in 1..26 : upper[i] = b}
  IN  IF at = {} THEN b ELSE lower[CHOOSE i \in at : TRUE]

RefIsLetter(b) == b \in 65..90 \/ b \in 97..122

\* C25: bytes_eq_ignore_case(a, b) is true iff a and b have the same length
\* and at every index the bytes are equal after folding only A-Z to a-z;
\* it is reflexive and symmetric, and two distinct bytes of which one is no
\* ASCII letter are never equal.
C25_BytesEqIgnoreCase ==
  (call.pc = "done" /\ call.fn = "bytes_eq_ignore_case") =>
    /\ call.r12 <=>
         /\ Len(call.bytes1) = Len(call.bytes2)
         /\ \A i \in 1..Len(call.bytes1) :
              RefFold(call.bytes1[i]) = RefFold(call.bytes2[i])
    /\ call.r11
    /\ call.r21 = call.r12
    /\ (/\ Len(call.bytes1) = 1
        /\ Len(call.bytes2) = 1
        /\ call.bytes1 # call.bytes2
        /\ ~(RefIsLetter(call.bytes1[1]) /\ RefIsLetter(call.bytes2[1]))) => ~call.r12

\* The bytes 0x40 and 0x60 have been compared, and are not equal.
C25_Witness ==
  /\ call.pc = "done"
  /\ call.fn = "bytes_eq_ignore_case"
  /\ call.bytes1 = <<64>>
  /\ call.bytes2 = <<96>>
  /\ ~call.r12

----------------------------------------------------------------------------
(* The states of match_for_encoding, its best-so-far slot and its cursor. *)

\* The bytes that are neither space nor tab, in order.
RefWithoutOws(bytes) == SelectSeq(bytes, LAMBDA b : b \notin {32, 9})

\* The edges of the state machine with what the iteration consumes: "token"
\* one or more tchar, "value" a parameter value, or OWS around one byte.
RefEdges ==
  { <<"SearchingEncoding", "SeenEncoding", "token">>,
    <<"SeenEncoding", "SeenSemicolon", ";">>,
    <<"SeenEncoding", "SearchingEncoding", ",">>,
    <<"SeenSemicolon", "SeenParameterName", "token">>,
    <<"SeenParameterName", "SeenEqual", "=">>,
    <<"SeenEqual", "SeenParameterValue", "value">>,
    <<"SeenParameterValue", "SearchingEncoding", ",">>,
    <<"SeenParameterValue", "SeenSemicolon", ";">> }

RefConsumedIs(bytes, what) ==
  IF what = "token"
  THEN Len(bytes) > 0 /\ \A i \in 1..Len(bytes) : RefIsTchar(bytes[i])
  ELSE IF what = "value"
  THEN Len(bytes) > 0
  ELSE IF what = "="
  THEN bytes = B("=")
  ELSE RefWithoutOws(bytes) = B(what)

\* One iteration of the loop: the scan goes on along one edge, consuming
\* what the edge says, or it returns no match; best-so-far changes only on
\* an edge of a comma.
EdgeOrAbort ==
  (em.pc = "loop" /\ em' # em /\ em.c < Len(em.input)) =>
    \/ /\ em'.pc = "abort"
       /\ ~em'.result.some
       /\ em'.best_result = em.best_result
    \/ /\ em'.pc = "loop"
       /\ \E e \in RefEdges :
            /\ e[1] = em.state
            /\ e[2] = em'.state
            /\ RefConsumedIs(SubSeq(em.input, em.c + 1, em'.c), e[3])
            /\ em'.best_result # em.best_result => e[3] = ","

\* The end of input: best-so-far is updated once more and returned.
EndOfInput ==
  (em.pc = "loop" /\ em' # em /\ em.c >= Len(em.input)) =>
    /\ em'.pc = "done"
    /\ em'.state = em.state
    /\ em'.c = em.c

StartsSearching ==
  (em.pc = "loop" /\ em.c = 0) => em.state = "SearchingEncoding"

\* C26: the state of match_for_encoding starts in SearchingEncoding and
\* moves, one edge per iteration, only along SearchingEncoding to
\* SeenEncoding (token), SeenEncoding to SeenSemicolon (';') or
\* SearchingEncoding (','), SeenSemicolon to SeenParameterName (token),
\* SeenParameterName to SeenEqual ('='), SeenEqual to SeenParameterValue
\* (value), SeenParameterValue to SearchingEncoding (',') or SeenSemicolon
\* (';'); any other input aborts with no match, and best-so-far is updated
\* only on the two comma edges and at the end of input.
C26_StateEdges ==
  /\ []StartsSearching
  /\ [][EdgeOrAbort]_vars
  /\ [][EndOfInput]_vars

\* A second parameter of one alternative begins: the edge from
\* SeenParameterValue to SeenSemicolon has been taken.
C26_Witness ==
  /\ em.pc = "loop"
  /\ em.state = "SeenSemicolon"
  /\ Len(em.hist) > 0
  /\ Len(em.hist[Len(em.hist)].params) = 1

\* Headers of one to three alternatives of every kind and several
\* qualities, for the wanted values gzip and text/html.
BestEncodingAlts == {"gzip", "*", "br", "gzip;q=0.5", "*;q=0.5", "gzip;q=0", "*;q=1"}
BestMimeAlts ==
  {"text/html", "text/*", "*/*", "image/png", "text/html;q=0.5", "text/*;q=0.5",
   "*/*;q=0.7"}

BestHeaders(alts) ==
  {B(a) : a \in alts}
    \cup {B(a \o "," \o b) : a \in alts, b \in alts}
    \cup {B(a \o "," \o b \o ", " \o c) : a \in alts, b \in alts, c \in alts}

InitBest ==
  /\ ord = OrdIdle
  /\ call = CallIdle
  /\ \/ /\ \E h \in BestHeaders(BestEncodingAlts) : em = EncodingCall(h, B("gzip"))
        /\ mm = MimeIdle
     \/ /\ em = EncodingIdle
        /\ \E h \in BestHeaders(BestMimeAlts) : mm = MimeCall(h, B("text/html"))

NextBest ==
  \/ Next
  \/ NextMime

SpecBest == InitBest /\ [][NextBest]_vars

\* One step of a scan with the slots cur and best before it and best2
\* after it, final telling a finalize point (the step of a comma): best
\* does not decrease, a match stays a match, it changes only to a strictly
\* greater candidate that is a match, and at a finalize point such a
\* candidate replaces it.
RefBestStep(cur, best, best2, final) ==
  /\ RefRank(best2) >= RefRank(best)
  /\ best.some => best2.some
  /\ best2 # best =>
       /\ final
       /\ cur.some
       /\ RefRank(cur) > RefRank(best)
       /\ best2 = cur
  /\ (final /\ cur.some /\ RefRank(cur) > RefRank(best)) => best2 = cur

BestNeverDecreases ==
  /\ (em.pc = "loop" /\ em'.pc = "loop") =>
       RefBestStep(em.cur_result, em.best_result, em'.best_result,
                   em.state # "SearchingEncoding" /\ em'.state = "SearchingEncoding")
  /\ (em.pc = "loop" /\ em'.pc = "done") =>
       RefBestStep(em.cur_result, em.best_result, em'.result, TRUE)
  /\ (mm.pc = "loop" /\ mm'.pc = "loop") =>
       RefBestStep(mm.cur_result, mm.best_result, mm'.best_result,
                   mm.state # "SearchingMainType" /\ mm'.state = "SearchingMainType")
  /\ (mm.pc = "loop" /\ mm'.pc = "done") =>
       RefBestStep(mm.cur_result, mm.best_result, mm'.result, TRUE)

\* C27: during one scan best-so-far never decreases, none being below
\* every match: may_update_best_result replaces it by the current candidate
\* only when the candidate is a match strictly greater than it (or it is
\* none); on a tie or a weaker candidate it is left unchanged, and once a
\* match it never becomes none again before the function returns.
C27_BestNeverDecreases ==
  [][BestNeverDecreases]_vars

\* A weaker second media range has been finalized and best-so-far kept.
C27_Witness ==
  /\ mm.pc = "loop"
  /\ mm.state = "SearchingMainType"
  /\ Len(mm.hist) = 2
  /\ mm.best_result.some
  /\ mm.cur_result.some
  /\ RefRank(mm.cur_result) < RefRank(mm.best_result)

----------------------------------------------------------------------------
(* src/src/lexer2.rs: the operations of the lexer called on their own, and *)
(* the cursor of a scan.                                                   *)

\* An upper bound on the length of the inputs of a single lexer operation.
MaxLexLen == 4

\* NUL, the quote, "1", the backslash, a tchar and a byte that is not ASCII.
LexBytes == {0, 34, 49, 92, 97, 255}

RECURSIVE LexSeqs(_)
LexSeqs(n) ==
  IF n = 0
  THEN {<<>>}
  ELSE {Append(r, b) : r \in LexSeqs(n - 1), b \in LexBytes}

LexInputs == UNION {LexSeqs(n) : n \in 0..MaxLexLen}

\* The bytes given to byte(b).
LexByteArgs == {DQUOTE, LOWER_A}

\* The cursor a call was made with: byte(b) has arg <<b, c>>.
LexCursor(cl) == IF cl.fn = "byte" THEN cl.arg[2] ELSE cl.arg

LexResult(r) == [ok |-> r.ok, c |-> r.c, q |-> 0, panic |-> FALSE]

\* token(input, &mut c)
ApplyToken ==
  /\ call.pc = "ready"
  /\ call.fn = "token"
  /\ call' = Returned(call, LexResult(token(call.input, call.arg)))
  /\ UNCHANGED <<em, mm, ord>>

\* quoted_string(input, &mut c)
ApplyQuotedString ==
  /\ call.pc = "ready"
  /\ call.fn = "quoted_string"
  /\ call' = Returned(call, LexResult(quoted_string(call.input, call.arg)))
  /\ UNCHANGED <<em, mm, ord>>

\* byte(b)(input, &mut c)
ApplyByte ==
  /\ call.pc = "ready"
  /\ call.fn = "byte"
  /\ call' = Returned(call, LexResult(byte(call.arg[1], call.input, call.arg[2])))
  /\ UNCHANGED <<em, mm, ord>>

InitLex ==
  /\ mm = MimeIdle
  /\ ord = OrdIdle
  /\ \/ /\ \E in \in TermEncodingInputs : em = EncodingCall(in[1], in[2])
        /\ call = CallIdle
     \/ /\ em = EncodingIdle
        /\ \E input \in LexInputs :
             \E c \in 0..Len(input) :
               \/ \E fn \in {"token", "quoted_string", "lexer2::q_value"} :
                    call = CallOf(fn, input, c)
               \/ \E b \in LexByteArgs : call = CallOf("byte", input, <<b, c>>)

NextLex ==
  \/ Next
  \/ ApplyToken
  \/ ApplyQuotedString
  \/ ApplyQValue
  \/ ApplyByte

SpecLex == InitLex /\ [][NextLex]_vars

\* bytes is input[start..end] for some c0 <= start <= end <= c1.
RefIsSliceBetween(bytes, input, c0, c1) ==
  \E start \in c0..c1 :
    \E end \in start..c1 : bytes = [i \in 1..(end - start) |-> input[start + i]]

\* A step of a scan keeps the cursor within the header and does not move it
\* backwards, and a slice it takes lies between the two cursors.
CursorStep ==
  em.pc = "loop" =>
    /\ em.c <= em'.c
    /\ em'.c <= Len(em.input)
    /\ Len(em'.hist) > Len(em.hist) =>
         RefIsSliceBetween(em'.hist[Len(em'.hist)].tok, em.input, em.c, em'.c)
    /\ em'.param_name # em.param_name =>
         RefIsSliceBetween(em'.param_name, em.input, em.c, em'.c)
    /\ (Len(em'.hist) = Len(em.hist) /\ em'.hist # em.hist) =>
         LET params == em'.hist[Len(em'.hist)].params
         IN  RefIsSliceBetween(params[Len(params)].value, em.input, em.c, em'.c)

\* A lexer operation returns with the cursor between the one it was called
\* with and the end of the input.
CursorOfCall ==
  call.pc = "done" =>
    /\ LexCursor(call) <= call.c
    /\ call.c <= Len(call.input)

\* C28: the cursor always satisfies 0 <= offset <= len(input) and never
\* moves backwards across the steps of a scan: the lexer advances it only
\* after peeking a byte that exists, so that every slice the matcher takes
\* has start <= end <= len(input).
C28_CursorBounds ==
  /\ [](em.pc # "idle" => (0 <= em.c /\ em.c <= Len(em.input)))
  /\ []CursorOfCall
  /\ [][CursorStep]_vars

\* The token slice of a scan is the whole header: start 0, end len(input).
C28_Witness ==
  /\ em.pc = "loop"
  /\ em.c = Len(em.input)
  /\ Len(em.hist) = 1
  /\ em.hist[1].tok = em.input
  /\ Len(em.input) = 3

----------------------------------------------------------------------------
\* The operations the statement on failing calls names.
FailingCall ==
  /\ call.pc = "done"
  /\ call.fn \in {"token", "quoted_string", "lexer2::q_value", "byte"}
  /\ ~call.ok

\* The byte at the cursor a call was made with is the double quote.
RefQuoteAtCursor(cl) ==
  /\ LexCursor(cl) < Len(cl.input)
  /\ cl.input[LexCursor(cl) + 1] = 34

\* A failing token, quoted_string, q_value or byte(b) returns with the
\* cursor it was called with.
C29_Original ==
  FailingCall => call.c = LexCursor(call)

\* C29 (as the code has it): a failing token, q_value or byte(b) returns
\* with the cursor equal to the cursor it was called with; a failing
\* quoted_string does so only when the opening quote is missing, and
\* otherwise returns with the cursor after the opening quote, at the point
\* of the failure.
C29_FailureCursor ==
  FailingCall =>
    IF call.fn = "quoted_string" /\ RefQuoteAtCursor(call)
    THEN call.c > LexCursor(call)
    ELSE call.c = LexCursor(call)

\* quoted_string has failed on an unterminated string from cursor 1 and
\* left the cursor at the end of the input.
C29_Witness ==
  /\ FailingCall
  /\ call.fn = "quoted_string"
  /\ call.input = <<97, 34, 97>>
  /\ call.arg = 1
  /\ call.c = 3

\* qdtext and the second byte of a quoted-pair, of RFC 7230 section 3.2.6.
RefIsQdtext(b) ==
  \/ b \in {9, 32, 33}
  \/ (35 <= b /\ b <= 91)
  \/ (93 <= b /\ b <= 126)
  \/ (128 <= b /\ b <= 255)

RefIsEscapable(b) ==
  \/ b \in {9, 32}
  \/ (33 <= b /\ b <= 126)
  \/ (128 <= b /\ b <= 255)

\* The least element of a non-empty set of numbers.
RefLeast(S) == CHOOSE x \in S : \A y \in S : x <= y

\* The number of backslashes in a row that end just before position i
\* (1-based) and start after position first.
RefBackslashRun(input, first, i) ==
  LET starts == {j \in (first + 1)..i : \A k \in j..(i - 1) : input[k] = 92}
  IN  i - RefLeast(starts)

\* Position i of a string opened at position first is the second byte of a
\* backslash pair, all bytes before it being well formed.
RefEscapedAt(input, first, i) == RefBackslashRun(input, first, i) % 2 = 1

\* The first position after the opening quote at position first that does
\* not continue the string: a byte that is neither qdtext nor a backslash
\* outside a pair, a byte that is not escapable after a backslash, or the
\* position after the last byte.
RefStop(input, first) ==
  RefLeast({i \in (first + 1)..(Len(input) + 1) :
            \/ i = Len(input) + 1
            \/ /\ RefEscapedAt(input, first, i)
               /\ ~RefIsEscapable(input[i])
            \/ /\ ~RefEscapedAt(input, first, i)
               /\ ~RefIsQdtext(input[i])
               /\ input[i] # 92})

\* The outcome of quoted_string from cursor c: it succeeds when the string
\* opened at the cursor stops at a closing quote, with the cursor after it;
\* it fails with the cursor unchanged when there is no opening quote and
\* with the cursor on the byte the string stopped at otherwise.
RefQuotedString(input, c) ==
  IF ~(c < Len(input) /\ input[c + 1] = 34)
  THEN [ok |-> FALSE, c |-> c]
  ELSE LET stop == RefStop(input, c + 1)
       IN  IF /\ stop <= Len(input)
              /\ ~RefEscapedAt(input, c + 1, stop)
              /\ input[stop] = 34
           THEN [ok |-> TRUE, c |-> stop]
           ELSE [ok |-> FALSE, c |-> stop - 1]

\* C30: quoted_string succeeds exactly on input that starts at the cursor
\* with a double quote, followed by any number of qdtext bytes and
\* backslash pairs whose second byte is tab, space, a visible ASCII byte or
\* a byte 0x80-0xFF, followed by a closing double quote, and then leaves the
\* cursor just after the closing quote; it fails when the opening quote is
\* missing, the string is unterminated or a backslash is followed by a byte
\* that is not escapable, and then leaves the cursor at the point of the
\* failure.
C30_QuotedString ==
  (call.pc = "done" /\ call.fn = "quoted_string") =>
    /\ call.ok = RefQuotedString(call.input, call.arg).ok
    /\ call.c = RefQuotedString(call.input, call.arg).c

\* quoted_string has failed on a backslash followed by NUL and left the
\* cursor at 2.
C30_Witness ==
  /\ call.pc = "done"
  /\ call.fn = "quoted_string"
  /\ call.input = <<34, 92, 0>>
  /\ call.arg = 0
  /\ ~call.ok
  /\ call.c = 2

\* quoted_string has taken a string of one backslash pair.
C30_PairTaken ==
  /\ call.pc = "done"
  /\ call.fn = "quoted_string"
  /\ call.input = <<34, 92, 34, 34>>
  /\ call.arg = 0
  /\ call.ok
  /\ call.c = 4

----------------------------------------------------------------------------
(* src/src/lexer2.rs: the three lookup tables, one byte at a time.         *)

\* is_tchar(c)
ApplyIsTchar ==
  /\ call.pc = "ready"
  /\ call.fn = "is_tchar"
  /\ call' = Returned(call, [ok |-> is_tchar(call.arg), c |-> 0, q |-> 0, panic |-> FALSE])
  /\ UNCHANGED <<em, mm, ord>>

\* is_qdtext(c)
ApplyIsQdtext ==
  /\ call.pc = "ready"
  /\ call.fn = "is_qdtext"
  /\ call' = Returned(call, [ok |-> is_qdtext(call.arg), c |-> 0, q |-> 0, panic |-> FALSE])
  /\ UNCHANGED <<em, mm, ord>>

\* is_quoted_pair_char(c)
ApplyIsQuotedPairChar ==
  /\ call.pc = "ready"
  /\ call.fn = "is_quoted_pair_char"
  /\ call' = Returned(call, [ok |-> is_quoted_pair_char(call.arg), c |-> 0, q |-> 0,
                             panic |-> FALSE])
  /\ UNCHANGED <<em, mm, ord>>

InitTables ==
  /\ em = EncodingIdle
  /\ mm = MimeIdle
  /\ ord = OrdIdle
  /\ \E b \in Byte :
       \E fn \in {"is_tchar", "is_qdtext", "is_quoted_pair_char"} :
         call = CallOf(fn, <<>>, b)

NextTables ==
  \/ ApplyIsTchar
  \/ ApplyIsQdtext
  \/ ApplyIsQuotedPairChar

SpecTables == InitTables /\ [][NextTables]_vars

\* The bytes ! # $ % & ' * + - . ^ _ ` | ~
RefTcharMarks == {33, 35, 36, 37, 38, 39, 42, 43, 45, 46, 94, 95, 96, 124, 126}

\* The three classes as the grammar gives them, by ranges of byte values.
RefTableValue(fn, b) ==
  IF fn = "is_tchar"
  THEN \/ (65 <= b /\ b <= 90)
       \/ (97 <= b /\ b <= 122)
       \/ (48 <= b /\ b <= 57)
       \/ b \in RefTcharMarks
  ELSE IF fn = "is_qdtext"
  THEN \/ b \in {9, 32, 33}
       \/ (35 <= b /\ b <= 91)
       \/ (93 <= b /\ b <= 126)
       \/ (128 <= b /\ b <= 255)
  ELSE \/ b \in {9, 32}
       \/ (33 <= b /\ b <= 126)
       \/ (128 <= b /\ b <= 255)

\* C31: for each of the 256 byte values the tables agree with the grammar:
\* TCHAR_TABLE is true exactly for the ASCII letters, the digits and the
\* fifteen marks; QDTEXT_TABLE exactly for tab, space, "!", 0x23-0x5B,
\* 0x5D-0x7E and 0x80-0xFF; QUOTED_PAIR_CHAR_TABLE exactly for tab, space,
\* 0x21-0x7E and 0x80-0xFF.
C31_Tables ==
  (call.pc = "done" /\ call.fn \in {"is_tchar", "is_qdtext", "is_quoted_pair_char"}) =>
    call.ok = RefTableValue(call.fn, call.arg)

\* The backslash has been looked up in QDTEXT_TABLE and is not qdtext.
C31_Witness ==
  /\ call.pc = "done"
  /\ call.fn = "is_qdtext"
  /\ call.arg = 92
  /\ ~call.ok

----------------------------------------------------------------------------
(* src/src/encoding_matcher2.rs: EncodingMatcher::match_encoding, run on   *)
(* the variable call.  Its lexer takes the cursor by value and returns the *)
(* new one; ows_semicolon_ows, ows_comma_ows and consume_ows_till_eof are   *)
(* written from the state machine's description of what follows an         *)
(* encoding and a parameter value.                                         *)

\* An upper bound on the number of loop iterations of one call that are
\* followed.
MaxIterations == 16

\* OWS ";" OWS: the cursor after it, or an error.
ows_semicolon_ows(input, c) ==
  LET r == byte(SEMICOLON, input, ows(input, c))
  IN  IF r.ok THEN POk(ows(input, r.c)) ELSE PErr(c)

\* OWS "," OWS: the cursor after it, or an error.
ows_comma_ows(input, c) ==
  LET r == byte(COMMA, input, ows(input, c))
  IN  IF r.ok THEN POk(ows(input, r.c)) ELSE PErr(c)

\* OWS up to the end of the input, or an error.
consume_ows_till_eof(input, c) ==
  LET c1 == ows(input, c)
  IN  IF eof(input, c1) THEN POk(c1) ELSE PErr(c)

\* EncodingMatcher::new(header_value) and the entry of match_encoding; iter
\* counts the iterations of the loop.
Matcher2Call(input, encoding) ==
  [fn |-> "encoding_matcher2::match_for_encoding", pc |-> "loop",
   input |-> input, encoding |-> encoding, state |-> "SearchingEncoding",
   cur_result |-> NoMatch, best_result |-> NoMatch, is_q_param |-> FALSE,
   c |-> 0, iter |-> 0, result |-> NoMatch]

matcher2_return_none(m) == [m EXCEPT !.pc = "abort", !.result = NoMatch]

\* `break`: the loop is left for the finalization.
matcher2_break(m) == [m EXCEPT !.pc = "finalize"]

Matcher2SearchingEncoding_arm(m) ==
  LET r == token(m.input, m.c)
  IN  IF r.ok
      THEN [m EXCEPT !.c = r.c,
                     !.cur_result = classify_encoding(slice(m.input, m.c, r.c), m.encoding),
                     !.state = "SeenEncoding"]
      ELSE matcher2_return_none(m)

Matcher2SeenEncoding_arm(m) ==
  LET semi == ows_semicolon_ows(m.input, m.c)
      comma == ows_comma_ows(m.input, m.c)
  IN  IF semi.ok
      THEN [m EXCEPT !.c = semi.c, !.state = "SeenSemicolon"]
      ELSE IF comma.ok
      THEN LET u == may_update_best_result(m.cur_result, m.best_result)
           IN  [m EXCEPT !.c = comma.c,
                         !.cur_result = u.cur_result,
                         !.best_result = u.best_result,
                         !.state = "SearchingEncoding"]
      ELSE IF consume_ows_till_eof(m.input, m.c).ok
      THEN matcher2_break(m)
      ELSE m

Matcher2SeenSemicolon_arm(m) ==
  LET r == token(m.input, m.c)
  IN  IF ~r.ok
      THEN matcher2_return_none(m)
      ELSE [m EXCEPT !.c = r.c,
                     !.is_q_param = bytes_eq_ignore_case(slice(m.input, m.c, r.c), Q_NAME),
                     !.state = "SeenParameterName"]

Matcher2SeenParameterName_arm(m) ==
  LET r == byte(EQ_SIGN, m.input, m.c)
  IN  IF ~r.ok
      THEN matcher2_return_none(m)
      ELSE [m EXCEPT !.c = r.c, !.state = "SeenEqual"]

Matcher2SeenEqual_arm(m) ==
  IF m.is_q_param
  THEN LET r == q_value(m.input, m.c)
       IN  IF ~r.ok
           THEN matcher2_return_none(m)
           ELSE [m EXCEPT !.c = r.c,
                          !.cur_result = IF @.some THEN [@ EXCEPT !.q = r.q] ELSE @,
                          !.state = "SeenParameterValue"]
  ELSE LET r == token_or_quoted_string(m.input, m.c)
       IN  IF ~r.ok
           THEN matcher2_return_none(m)
           ELSE [m EXCEPT !.c = r.c, !.state = "SeenParameterValue"]

Matcher2SeenParameterValue_arm(m) ==
  LET comma == ows_comma_ows(m.input, m.c)
      semi == ows_semicolon_ows(m.input, m.c)
  IN  IF comma.ok
      THEN LET u == may_update_best_result(m.cur_result, m.best_result)
           IN  [m EXCEPT !.c = comma.c,
                         !.cur_result = u.cur_result,
                         !.best_result = u.best_result,
                         !.state = "SearchingEncoding"]
      ELSE IF semi.ok
      THEN [m EXCEPT !.c = semi.c, !.state = "SeenSemicolon"]
      ELSE IF consume_ows_till_eof(m.input, m.c).ok
      THEN matcher2_break(m)
      ELSE m

\* self.may_update_best_result(); self.best_result.take()
matcher2_finish(m) ==
  LET u == may_update_best_result(m.cur_result, m.best_result)
  IN  [m EXCEPT !.cur_result = u.cur_result,
                !.best_result = NoMatch,
                !.result = u.best_result,
                !.pc = "done"]

\* The loop of match_encoding is about to run an iteration in state st.
Matcher2InLoop(st) ==
  /\ call.pc = "loop"
  /\ call.fn = "encoding_matcher2::match_for_encoding"
  /\ ~eof(call.input, call.c)
  /\ call.state = st
  /\ call.iter < MaxIterations

\* One iteration: the arm's outcome with one more iteration counted.
Iterated(m) == [m EXCEPT !.iter = @ + 1]

Step2SearchingEncoding ==
  /\ Matcher2InLoop("SearchingEncoding")
  /\ call' = Iterated(Matcher2SearchingEncoding_arm(call))
  /\ UNCHANGED <<em, mm, ord>>

Step2SeenEncoding ==
  /\ Matcher2InLoop("SeenEncoding")
  /\ call' = Iterated(Matcher2SeenEncoding_arm(call))
  /\ UNCHANGED <<em, mm, ord>>

Step2SeenSemicolon ==
  /\ Matcher2InLoop("SeenSemicolon")
  /\ call' = Iterated(Matcher2SeenSemicolon_arm(call))
  /\ UNCHANGED <<em, mm, ord>>

Step2SeenParameterName ==
  /\ Matcher2InLoop("SeenParameterName")
  /\ call' = Iterated(Matcher2SeenParameterName_arm(call))
  /\ UNCHANGED <<em, mm, ord>>

Step2SeenEqual ==
  /\ Matcher2InLoop("SeenEqual")
  /\ call' = Iterated(Matcher2SeenEqual_arm(call))
  /\ UNCHANGED <<em, mm, ord>>

Step2SeenParameterValue ==
  /\ Matcher2InLoop("SeenParameterValue")
  /\ call' = Iterated(Matcher2SeenParameterValue_arm(call))
  /\ UNCHANGED <<em, mm, ord>>

\* The statements after the loop, reached by the loop condition or a break.
Matcher2Finish ==
  /\ call.fn = "encoding_matcher2::match_for_encoding"
  /\ \/ call.pc = "loop" /\ eof(call.input, call.c)
     \/ call.pc = "finalize"
  /\ call' = matcher2_finish(call)
  /\ UNCHANGED <<em, mm, ord>>

\* Elements of a header, among them some that end in a byte that is no
\* separator.
Matcher2Alts ==
  {"gzip", "*", "br", "gzip;q=0.5", "br;a=b", "gzip;a=\"x,y\";q=0", "br/", "gzip ",
   "br;q=1 /", "gzip;q=0.5 ", "", "br;", "br;q", "br;q=2"}

Matcher2Headers ==
  {B(a) : a \in Matcher2Alts}
    \cup {B(a \o sep \o b) : a \in Matcher2Alts, b \in Matcher2Alts, sep \in {",", " , "}}

InitMatcher2 ==
  /\ em = EncodingIdle
  /\ mm = MimeIdle
  /\ ord = OrdIdle
  /\ \E h \in Matcher2Headers :
       \E w \in {B("gzip"), B("br")} : call = Matcher2Call(h, w)

NextMatcher2 ==
  \/ Step2SearchingEncoding
  \/ Step2SeenEncoding
  \/ Step2SeenSemicolon
  \/ Step2SeenParameterName
  \/ Step2SeenEqual
  \/ Step2SeenParameterValue
  \/ Matcher2Finish

SpecMatcher2 == InitMatcher2 /\ [][NextMatcher2]_vars

\* An iteration of the loop returns, leaves the loop, or moves the cursor
\* forward.
IterationMoves ==
  (call.pc = "loop" /\ call'.iter = call.iter + 1) =>
    \/ call'.pc # "loop"
    \/ call'.c > call.c

\* C32: encoding_matcher2::match_for_encoding terminates on every input: in
\* the states SeenEncoding and SeenParameterValue every iteration of the
\* loop advances the cursor past a ";" or "," separator, leaves the loop
\* because only optional whitespace remains, or returns no match; no
\* iteration leaves both the cursor and the state unchanged.
C32_EveryIterationMoves ==
  [][IterationMoves]_vars

\* The loop has run MaxIterations times on "br/" and is still at the "/"
\* in state SeenEncoding.
C32_Stuck ==
  /\ call.pc = "loop"
  /\ call.fn = "encoding_matcher2::match_for_encoding"
  /\ call.input = <<98, 114, 47>>
  /\ call.state = "SeenEncoding"
  /\ call.c = 2
  /\ call.iter = MaxIterations

----------------------------------------------------------------------------
(* src/src/encoding_matcher.rs: match_for_encoding on headers chosen for  *)
(* their parameters, their q values, their commas and their aliases.       *)

\* An upper bound on the number of bytes between the quotes of a quoted
\* parameter value.
MaxQuotedLen == 3

\* The bytes between the quotes: the three separators, a letter, a space.
QuotedBytes == {44, 59, 61, 120, 32}

RECURSIVE QuotedSeqs(_)
QuotedSeqs(n) ==
  IF n = 0
  THEN {<<>>}
  ELSE {Append(r, b) : r \in QuotedSeqs(n - 1), b \in QuotedBytes}

QuotedBodies == UNION {QuotedSeqs(n) : n \in 0..MaxQuotedLen}

\* What follows the quoted value: nothing, a q parameter, another element.
QuotedTails == {B(""), B(";q=0.5"), B(",br"), B(" ; q=0.5")}

\* gzip;a="<body>"<tail>
QuotedHeader(body, tail) == B("gzip;a=") \o <<34>> \o body \o <<34>> \o tail

QuotedInputs ==
  {<<QuotedHeader(body, tail), B("gzip")>> : body \in QuotedBodies, tail \in QuotedTails}
    \cup {<<B("gzip;a=") \o <<34>> \o B("x,y;z") \o <<34>> \o B(";q=0.5"), B("gzip")>>}

\* Values of a q parameter that are no q value.
BadQValues == {"2", "1.5", "1.001", "0.1234", "01", "-1", ".5", "x", "1.0x"}

\* An alternative other than gzip with such a q value, before or after gzip.
BadQHeaders ==
  {B(alt \o ";q=" \o bad \o sep \o "gzip") :
     alt \in {"br", "deflate"}, bad \in BadQValues, sep \in {",", ", ", " ,"}}
    \cup {B("gzip" \o sep \o alt \o ";q=" \o bad) :
             alt \in {"br", "deflate"}, bad \in BadQValues, sep \in {",", ", "}}
    \cup {B("br;q=") \o <<34>> \o B("1") \o <<34>> \o B(", gzip")}

\* The same headers with q values that are well formed.
GoodQHeaders ==
  {B(alt \o ";q=" \o good \o sep \o "gzip") :
     alt \in {"br", "deflate"}, good \in {"0", "0.5", "1", "1.000", "0.123"},
     sep \in {",", ", "}}

\* q values as written and in thousandths.
QTexts == {<<"0.5", 500>>, <<"0.9", 900>>, <<"0", 0>>, <<"1", 1000>>, <<"0.123", 123>>}

\* What stands between two q parameters of one alternative.
QSeparators == {";", " ; ", ";a=b;", ";Q=0.7;"}

\* gzip with two q parameters, or more.
TwoQHeader(q1, mid, q2) == B("gzip;q=" \o q1 \o mid \o "q=" \o q2)

\* An alternative with a q parameter followed by the alternative gzip.
CarryHeader(first, q1, sep) == B(first \o ";q=" \o q1 \o sep \o "gzip")

RepeatedQHeaders ==
  {TwoQHeader(p1[1], mid, p2[1]) : p1 \in QTexts, mid \in QSeparators, p2 \in QTexts}
    \cup {CarryHeader(first, p1[1], sep) :
            first \in {"gzip", "*", "br"}, p1 \in QTexts, sep \in {",", " , "}}

\* Headers that end with an encoding token or a parameter value.
TrailBases ==
  {"gzip", "*", "br", "x-gzip", "gzip;q=0.5", "*;q=0", "br;a=b", "gzip,br", "br, *;q=0.2",
   "gzip;q=0.5,*", "*,gzip;q=0.1", "br;q=0.3, br;q=0.6", "GZIP;Q=0.25"}

TrailWanted == {B("gzip"), B("br"), B("identity")}

\* A comma and optional whitespace.
TrailingCommas == {B(","), B(", "), B(",\t"), B(",  ")}

\* Headers with an empty element at the start or between two commas.
EmptyElementHeaders ==
  {B(lead \o h) : lead \in {",", ", ", " ,"}, h \in TrailBases}
    \cup {B(h1 \o mid \o h2) :
            h1 \in {"gzip", "br;q=0.5"}, mid \in {",,", ", ,", ",\t,", " , , "},
            h2 \in {"gzip", "*", ""}}

\* A name and its alias, as an encoding token of the header and as the
\* wanted encoding, with what the call returns: <<header, wanted, result>>.
AliasCases ==
  UNION {
    { <<B(alias), B(name), Match(Exact, 1000)>>,
      <<B(alias \o ";q=0.5"), B(name), Match(Exact, 500)>>,
      <<B("br," \o alias), B(name), Match(Exact, 1000)>>,
      <<B("*," \o alias \o ";q=0.1"), B(name), Match(Exact, 100)>>,
      <<B(name), B(alias), NoMatch>>,
      <<B(name \o ";q=0.5"), B(alias), NoMatch>>,
      <<B("br," \o name), B(alias), NoMatch>>,
      <<B(name \o ",*;q=0.5"), B(alias), Match(Wildcard, 500)>>,
      <<B(alias), B(alias), Match(Exact, 1000)>>,
      <<B(name), B(name), Match(Exact, 1000)>> } :
    <<name, alias>> \in {<<"gzip", "x-gzip">>, <<"compress", "x-compress">>,
                         <<"GZip", "X-Gzip">>, <<"gzip", "X-GZIP">>,
                         <<"COMPRESS", "x-compress">>} }
    \cup { <<B("x-compress"), B("gzip"), NoMatch>>,
           <<B("x-gzip"), B("compress"), NoMatch>>,
           <<B("x-br"), B("br"), NoMatch>>,
           <<B("x-x-gzip"), B("x-gzip"), NoMatch>> }

\* The ways to write the quality 0, and wildcards of several qualities.
ZeroTexts == {"0", "0.", "0.0", "0.000"}
WildcardTexts == {"*", "*;q=1", "*;q=0.5", "*;q=0.001", "*;q=0"}

\* gzip with quality 0, alone, before and after a wildcard.
ZeroQHeaders ==
  {B("gzip;q=" \o z) : z \in ZeroTexts}
    \cup {B("gzip;q=" \o z \o sep \o w) :
            z \in ZeroTexts, sep \in {",", ", "}, w \in WildcardTexts}
    \cup {B(w \o sep \o "gzip;q=" \o z) :
            z \in ZeroTexts, sep \in {",", ", "}, w \in WildcardTexts}

CaseInputs ==
  QuotedInputs
    \cup {<<h, B("gzip")>> :
            h \in BadQHeaders \cup GoodQHeaders \cup RepeatedQHeaders \cup ZeroQHeaders}
    \cup {<<B(h), w>> : h \in TrailBases, w \in TrailWanted}
    \cup {<<h, w>> : h \in EmptyElementHeaders, w \in TrailWanted}
    \cup {<<a[1], a[2]>> : a \in AliasCases}

InitCases ==
  /\ \E in \in CaseInputs : em = EncodingCall(in[1], in[2])
  /\ mm = MimeIdle
  /\ ord = OrdIdle
  /\ call = CallIdle

SpecCases == InitCases /\ [][Next]_vars

\* The header is gzip;a="<body>"<tail> for a body without quote or
\* backslash, and the call has returned as the statement says: the quoted
\* string is the value of a, and the result is Exact with the quality of the
\* tail.
RefQuotedOutcome(m, body, tail) ==
  /\ m.pc = "done"
  /\ Len(m.hist) = (IF tail = B(",br") THEN 2 ELSE 1)
  /\ m.hist[1].tok = B("gzip")
  /\ m.hist[1].params[1] = [name |-> B("a"), value |-> <<34>> \o body \o <<34>>]
  /\ m.result = Match(Exact, IF tail \in {B(";q=0.5"), B(" ; q=0.5")} THEN 500 ELSE 1000)

\* The position of the last double quote of a header that has one.
RefLastQuote(input) ==
  CHOOSE i \in 1..Len(input) :
    input[i] = 34 /\ \A j \in (i + 1)..Len(input) : input[j] # 34

\* The header is gzip;a="<body>"<tail> with a body and a tail of the model.
RefIsQuotedHeader(input) ==
  /\ Len(input) >= 9
  /\ SubSeq(input, 1, 8) = B("gzip;a=") \o <<34>>
  /\ SubSeq(input, 9, RefLastQuote(input) - 1) \in QuotedBodies \cup {B("x,y;z")}
  /\ SubSeq(input, RefLastQuote(input) + 1, Len(input)) \in QuotedTails

\* C33: a "," or ";" or "=" inside a quoted-string parameter value does not
\* act as a separator: match_for_encoding takes the whole quoted string as
\* the value of the parameter, keeps scanning the same alternative, and for
\* gzip;a="x,y;z";q=0.5 returns Exact with quality 500 for gzip.
C33_QuotedValue ==
  (em.pc \in {"done", "abort", "panic"} /\ RefIsQuotedHeader(em.input)) =>
    RefQuotedOutcome(em,
                     SubSeq(em.input, 9, RefLastQuote(em.input) - 1),
                     SubSeq(em.input, RefLastQuote(em.input) + 1, Len(em.input)))

\* The call on gzip;a="x,y;z";q=0.5 has returned Exact with quality 500.
C33_Witness ==
  /\ em.pc = "done"
  /\ em.input = B("gzip;a=") \o <<34>> \o B("x,y;z") \o <<34>> \o B(";q=0.5")
  /\ em.result = Match(Exact, 500)

----------------------------------------------------------------------------
\* C34: the q parameter of an alternative is validated whether or not the
\* alternative matches the wanted encoding: a malformed q value in an
\* alternative that does not match makes match_for_encoding return no
\* match, although another alternative matches.
C34_BadQOfOtherAlternative ==
  /\ (em.pc \in {"done", "abort", "panic"} /\ em.input \in BadQHeaders) =>
       (em.pc = "abort" /\ ~em.result.some)
  /\ (em.pc \in {"done", "abort", "panic"} /\ em.input \in GoodQHeaders) =>
       (em.pc = "done" /\ em.result = Match(Exact, 1000))

\* The call on br;q=2, gzip has returned no match at the "2".
C34_Witness ==
  /\ em.pc = "abort"
  /\ em.input = B("br;q=2, gzip")
  /\ em.encoding = B("gzip")
  /\ em.c = 5
  /\ ~em.result.some

----------------------------------------------------------------------------
\* C35: when one alternative carries several q parameters, the last one
\* determines its quality (900 for gzip;q=0.5;q=0.9, 500 for
\* gzip;q=0.9;q=0.5), and a q parameter never carries over to the next
\* alternative, whose quality starts again at 1000.
C35_LastQWins ==
  /\ em.pc \in {"done", "abort", "panic"} =>
       /\ \A p1 \in QTexts : \A mid \in QSeparators : \A p2 \in QTexts :
            em.input = TwoQHeader(p1[1], mid, p2[1]) =>
              (em.pc = "done" /\ em.result = Match(Exact, p2[2]))
       /\ \A first \in {"gzip", "*", "br"} : \A p1 \in QTexts : \A sep \in {",", " , "} :
            em.input = CarryHeader(first, p1[1], sep) =>
              (em.pc = "done" /\ em.result = Match(Exact, 1000))
  /\ (em.pc = "loop" /\ em.state = "SeenEncoding" /\ em.cur_result.some) =>
       em.cur_result.q = 1000

\* The call on gzip;q=0.5;q=0.9 has returned Exact with quality 900.
C35_Witness ==
  /\ em.pc = "done"
  /\ em.input = B("gzip;q=0.5;q=0.9")
  /\ em.result = Match(Exact, 900)

\* The second alternative of gzip;q=0.5,gzip starts at quality 1000.
C35_NextStartsAt1000 ==
  /\ em.pc = "loop"
  /\ em.input = B("gzip;q=0.5,gzip")
  /\ em.state = "SeenEncoding"
  /\ Len(em.hist) = 2
  /\ em.best_result = Match(Exact, 500)
  /\ em.cur_result = Match(Exact, 1000)

----------------------------------------------------------------------------
\* C36: a trailing comma is accepted and changes nothing: for every header
\* h on which match_for_encoding does not abort and that ends with an
\* encoding token or a parameter value, h followed by "," and optional
\* whitespace returns the same result as h for every wanted encoding;
\* whereas a header that starts with "," or holds two commas separated only
\* by whitespace returns no match.
C36_TrailingComma ==
  /\ (em.pc = "done" /\ em.state \in {"SeenEncoding", "SeenParameterValue"}) =>
       \A t \in TrailingCommas :
         match_for_encoding(em.input \o t, em.encoding) =
           [pc |-> "done", result |-> em.result]
  /\ (em.pc \in {"done", "abort", "panic"} /\ em.input \in EmptyElementHeaders) =>
       (em.pc = "abort" /\ ~em.result.some)

\* The call on gzip;q=0.5,* for br has returned the wildcard, as the call
\* with a trailing comma does.
C36_Witness ==
  /\ em.pc = "done"
  /\ em.input = B("gzip;q=0.5,*")
  /\ em.encoding = B("br")
  /\ em.state = "SeenEncoding"
  /\ em.result = Match(Wildcard, 1000)
  /\ match_for_encoding(B("gzip;q=0.5,*, "), B("br")).result = Match(Wildcard, 1000)

----------------------------------------------------------------------------
\* C37: the x- aliases work in one direction only: asking for gzip matches
\* a header alternative x-gzip as Exact (and compress matches x-compress),
\* but asking for x-gzip against the header gzip (or x-compress against
\* compress) is not an Exact match and, without a "*" alternative, returns
\* no match.
C37_AliasOneWay ==
  em.pc \in {"done", "abort", "panic"} =>
    \A a \in AliasCases :
      (em.input = a[1] /\ em.encoding = a[2]) =>
        (em.pc = "done" /\ em.result = a[3])

\* The call on the header gzip for x-gzip has returned no match.
C37_Witness ==
  /\ em.pc = "done"
  /\ em.input = B("gzip")
  /\ em.encoding = B("x-gzip")
  /\ ~em.result.some

\* The call on the header x-gzip for gzip has returned Exact.
C37_AliasMatches ==
  /\ em.pc = "done"
  /\ em.input = B("x-gzip")
  /\ em.encoding = B("gzip")
  /\ em.result = Match(Exact, 1000)

----------------------------------------------------------------------------
\* C38: a matching alternative with q=0 is reported as a match with
\* quality 0, never as no match, and it still outranks a wildcard of any
\* quality: for gzip;q=0, * asked for gzip the result is Exact with
\* quality 0.
C38_ZeroQualityIsAMatch ==
  /\ (em.pc \in {"done", "abort", "panic"} /\ em.input \in ZeroQHeaders) =>
       (em.pc = "done" /\ em.result = Match(Exact, 0))
  /\ (em.pc = "done" /\ \E i \in 1..Len(em.hist) : RefAlt(em.hist[i], em.encoding).some) =>
       em.result.some

\* The call on gzip;q=0, * for gzip has returned Exact with quality 0.
C38_Witness ==
  /\ em.pc = "done"
  /\ em.input = B("gzip;q=0, *")
  /\ em.encoding = B("gzip")
  /\ em.result = Match(Exact, 0)

----------------------------------------------------------------------------
====
